---- MODULE Spec2Model ----
(***************************************************************************)
(* Blog backend: the in-memory prototype (src/app/storage.py) and the      *)
(* relational version (src/crud.py, src/routes.py, src/models.py).         *)
(* A run is one of the two variants; `variant` says which.                 *)
(***************************************************************************)
EXTENDS Integers, Sequences, FiniteSets, Bags, TLC

\* ------------------------------------------------------------------ bounds
MaxUserId == 3
MaxPostId == 2
MaxCommentId == 2
MaxClock == 3
TicksPerSecond == 2
MaxItems == 45
MaxViews == 3

\* ------------------------------------------------------------ option values
\* Python's Optional[T]: <<>> is None (SQL NULL), <<v>> is the value v.
NULL == <<>>
Some(v) == <<v>>
Opt(S) == {NULL} \cup {Some(v) : v \in S}
IsSome(o) == o # NULL
Get(o) == o[1]

\* -------------------------------------------------------------- input sets
Emails == {"a@x.io", "b@x.io"}
Logins == {"ann", "bob"}
FullNames == {"Ann A"}
Passwords == {"pw-one-1"}
Sessions == {1, 2}
UserIds == 1..MaxUserId
PostIds == 1..MaxPostId
CommentIds == 1..MaxCommentId
CategoryIds == {1, 2}

\* Not modelled: the columns no operation of the model reads back (updated_at,
\* bio, avatar_url, created_at of tables other than users) and the timestamps
\* of the prototype's records.
VARIABLES
    variant,        \* "prototype" (src/app) or "relational" (src/crud.py)
    s_users,        \* Store.users: id -> UserRead
    s_posts,        \* Store.posts: id -> PostRead
    s_user_seq,     \* Store._user_seq
    s_post_seq,     \* Store._post_seq
    users,          \* table users: id -> row
    user_id_seq,    \* last id the users table issued
    categories,     \* table categories: id -> row
    posts,          \* table posts: id -> row
    post_id_seq,    \* last id the posts table issued
    post_categories,\* table post_categories: set of <<post_id, category_id>>
    comments,       \* table comments: id -> row
    comment_id_seq, \* last id the comments table issued
    favorites,      \* table favorites: bag of <<user_id, post_id>>
    subscriptions,  \* table subscriptions: bag of <<follower_id, following_id>>
    now,            \* the clock, in ticks (TicksPerSecond ticks to a second)
    sess,           \* requests in flight: session -> [pc, data, out]
    listing,        \* the ordered result of a list query, before offset/limit
    last,           \* the last operation and what it returned
    data_file       \* DATA_FILE (data.json): the payload written last, if any

store_vars == <<s_users, s_posts, s_user_seq, s_post_seq>>
user_vars == <<users, user_id_seq>>
post_vars == <<posts, post_id_seq, post_categories>>
comment_vars == <<comments, comment_id_seq>>
social_vars == <<favorites, subscriptions>>
db_vars == <<user_vars, categories, post_vars, comment_vars, social_vars>>
vars == <<variant, store_vars, db_vars, now, sess, listing, last, data_file>>

IdleSession == [pc |-> "idle", data |-> NULL, out |-> NULL]
NoOp == [op |-> "none", result |-> "none"]

\* Everything empty but table users and table categories.
BaseState(us, cats) ==
    /\ s_users = <<>> /\ s_posts = <<>> /\ s_user_seq = 0 /\ s_post_seq = 0
    /\ users = us /\ user_id_seq = Len(us)
    /\ categories = cats
    /\ posts = <<>> /\ post_id_seq = 0 /\ post_categories = {}
    /\ comments = <<>> /\ comment_id_seq = 0
    /\ favorites = EmptyBag /\ subscriptions = EmptyBag
    /\ now = 0
    /\ sess = [s \in Sessions |-> IdleSession]
    /\ listing = <<>>
    /\ last = NoOp
    /\ data_file = NULL

\* The state right after construction: empty store (storage.py:119), empty tables.
EmptyState == BaseState(<<>>, <<>>)

Returned(op, result) == last' = [op |-> op, result |-> result]

\* f without the keys in S
Without(f, S) == [k \in DOMAIN f \ S |-> f[k]]

\* ================================================================ prototype
\* ----- Store, users

Store_email_in_use_wrong_field(email, except_id) ==
    \E i \in DOMAIN s_users : s_users[i].login = email /\ s_users[i].id # except_id

Store_email_in_use(email, except_id) ==
    \E i \in DOMAIN s_users : s_users[i].email = email /\ s_users[i].id # except_id

Store_login_in_use(login, except_id) ==
    \E i \in DOMAIN s_users : s_users[i].login = login /\ s_users[i].id # except_id

\* create_user with the counter advanced before the two tests
Store_create_user_counts_first(data) ==
    /\ variant = "prototype"
    /\ s_user_seq < MaxUserId
    /\ s_user_seq' = s_user_seq + 1
    /\ IF Store_email_in_use(data.email, 0)
       THEN /\ Returned("Store.create_user", "ValueError: email already in use")
            /\ UNCHANGED <<s_users, s_posts, s_post_seq>>
       ELSE IF Store_login_in_use(data.login, 0)
       THEN /\ Returned("Store.create_user", "ValueError: login already in use")
            /\ UNCHANGED <<s_users, s_posts, s_post_seq>>
       ELSE /\ s_users' = s_users @@ (s_user_seq' :>
                   [id |-> s_user_seq', email |-> data.email, login |-> data.login])
            /\ Returned("Store.create_user", "ok")
            /\ UNCHANGED <<s_posts, s_post_seq>>
    /\ UNCHANGED <<variant, data_file, db_vars, now, sess, listing>>

Store_create_user(data) ==
    /\ variant = "prototype"
    /\ s_user_seq < MaxUserId
    /\ IF Store_email_in_use(data.email, 0)
       THEN /\ Returned("Store.create_user", "ValueError: email already in use")
            /\ UNCHANGED store_vars
       ELSE IF Store_login_in_use(data.login, 0)
       THEN /\ Returned("Store.create_user", "ValueError: login already in use")
            /\ UNCHANGED store_vars
       ELSE /\ s_user_seq' = s_user_seq + 1
            /\ s_users' = s_users @@ (s_user_seq' :>
                   [id |-> s_user_seq', email |-> data.email, login |-> data.login])
            /\ Returned("Store.create_user", "ok")
            /\ UNCHANGED <<s_posts, s_post_seq>>
    /\ UNCHANGED <<variant, data_file, db_vars, now, sess, listing>>

Store_update_user(user_id, data) ==
    /\ variant = "prototype"
    /\ IF user_id \notin DOMAIN s_users
       THEN /\ Returned("Store.update_user", "KeyError: user not found")
            /\ UNCHANGED store_vars
       ELSE IF IsSome(data.email) /\ Store_email_in_use(Get(data.email), user_id)
       THEN /\ Returned("Store.update_user", "ValueError: email already in use")
            /\ UNCHANGED store_vars
       ELSE IF IsSome(data.login) /\ Store_login_in_use(Get(data.login), user_id)
       THEN /\ Returned("Store.update_user", "ValueError: login already in use")
            /\ UNCHANGED store_vars
       ELSE /\ s_users' = [s_users EXCEPT ![user_id] =
                   [id |-> @.id,
                    email |-> IF IsSome(data.email) THEN Get(data.email) ELSE @.email,
                    login |-> IF IsSome(data.login) THEN Get(data.login) ELSE @.login]]
            /\ Returned("Store.update_user", "ok")
            /\ UNCHANGED <<s_posts, s_user_seq, s_post_seq>>
    /\ UNCHANGED <<variant, data_file, db_vars, now, sess, listing>>

\* delete_user without the removal of the user's posts
Store_delete_user_keeps_posts(user_id) ==
    /\ variant = "prototype"
    /\ IF user_id \notin DOMAIN s_users
       THEN /\ Returned("Store.delete_user", "KeyError: user not found")
            /\ UNCHANGED store_vars
       ELSE /\ s_users' = Without(s_users, {user_id})
            /\ Returned("Store.delete_user", "ok")
            /\ UNCHANGED <<s_posts, s_user_seq, s_post_seq>>
    /\ UNCHANGED <<variant, data_file, db_vars, now, sess, listing>>

Store_delete_user(user_id) ==
    /\ variant = "prototype"
    /\ IF user_id \notin DOMAIN s_users
       THEN /\ Returned("Store.delete_user", "KeyError: user not found")
            /\ UNCHANGED store_vars
       ELSE /\ s_posts' = Without(s_posts,
                   {pid \in DOMAIN s_posts : s_posts[pid].authorId = user_id})
            /\ s_users' = Without(s_users, {user_id})
            /\ Returned("Store.delete_user", "ok")
            /\ UNCHANGED <<s_user_seq, s_post_seq>>
    /\ UNCHANGED <<variant, data_file, db_vars, now, sess, listing>>

\* ----- Store, posts

Store_create_post(data) ==
    /\ variant = "prototype"
    /\ s_post_seq < MaxPostId
    /\ IF data.authorId \notin DOMAIN s_users
       THEN /\ Returned("Store.create_post", "ValueError: authorId does not exist")
            /\ UNCHANGED store_vars
       ELSE /\ s_post_seq' = s_post_seq + 1
            /\ s_posts' = s_posts @@ (s_post_seq' :>
                   [id |-> s_post_seq', authorId |-> data.authorId,
                    title |-> data.title, content |-> data.content])
            /\ Returned("Store.create_post", "ok")
            /\ UNCHANGED <<s_users, s_user_seq>>
    /\ UNCHANGED <<variant, data_file, db_vars, now, sess, listing>>

Store_update_post(post_id, data) ==
    /\ variant = "prototype"
    /\ IF post_id \notin DOMAIN s_posts
       THEN /\ Returned("Store.update_post", "KeyError: post not found")
            /\ UNCHANGED store_vars
       ELSE LET post == s_posts[post_id]
                new_author == IF IsSome(data.authorId) THEN Get(data.authorId)
                              ELSE post.authorId
            IN  IF new_author \notin DOMAIN s_users
                THEN /\ Returned("Store.update_post", "ValueError: authorId does not exist")
                     /\ UNCHANGED store_vars
                ELSE /\ s_posts' = [s_posts EXCEPT ![post_id] =
                            [id |-> post.id,
                             authorId |-> new_author,
                             title |-> IF IsSome(data.title) THEN Get(data.title)
                                       ELSE post.title,
                             content |-> IF IsSome(data.content) THEN Get(data.content)
                                         ELSE post.content]]
                     /\ Returned("Store.update_post", "ok")
                     /\ UNCHANGED <<s_users, s_user_seq, s_post_seq>>
    /\ UNCHANGED <<variant, data_file, db_vars, now, sess, listing>>

Store_delete_post(post_id) ==
    /\ variant = "prototype"
    /\ IF post_id \notin DOMAIN s_posts
       THEN /\ Returned("Store.delete_post", "KeyError: post not found")
            /\ UNCHANGED store_vars
       ELSE /\ s_posts' = Without(s_posts, {post_id})
            /\ Returned("Store.delete_post", "ok")
            /\ UNCHANGED <<s_users, s_user_seq, s_post_seq>>
    /\ UNCHANGED <<variant, data_file, db_vars, now, sess, listing>>

\* ----- the JSON file of the prototype

\* list(d.values()): a dict lists its values in the order the keys were put
\* in; the store puts them in by ascending id and every rebuild keeps the order.
RECURSIVE dict_values(_)
dict_values(d) ==
    IF DOMAIN d = {} THEN <<>>
    ELSE LET first == CHOOSE i \in DOMAIN d : \A j \in DOMAIN d : i <= j
         IN  <<d[first]>> \o dict_values(Without(d, {first}))

\* u.model_dump(mode="json") and UserRead.model_validate(u), field by field
UserRead_model_dump(u) == [id |-> u.id, email |-> u.email, login |-> u.login]
UserRead_model_validate(u) == [id |-> u.id, email |-> u.email, login |-> u.login]
PostRead_model_dump(p) ==
    [id |-> p.id, authorId |-> p.authorId, title |-> p.title, content |-> p.content]
PostRead_model_validate(p) ==
    [id |-> p.id, authorId |-> p.authorId, title |-> p.title, content |-> p.content]

\* {u["id"]: u for u in items}: a later item replaces an earlier one that
\* has the same id
dict_by_id(items) ==
    [i \in {items[k].id : k \in DOMAIN items} |->
        LET k == CHOOSE k \in DOMAIN items :
                    /\ items[k].id = i
                    /\ \A m \in DOMAIN items : items[m].id = i => m <= k
        IN  items[k]]

\* {u["id"]: UserRead.model_validate(u) for u in payload.get("users", [])}
loaded_users(payload) ==
    [i \in DOMAIN dict_by_id(payload.users) |->
        UserRead_model_validate(dict_by_id(payload.users)[i])]

\* {p["id"]: PostRead.model_validate(p) for p in payload.get("posts", [])}
loaded_posts(payload) ==
    [i \in DOMAIN dict_by_id(payload.posts) |->
        PostRead_model_validate(dict_by_id(payload.posts)[i])]

\* the payload save_to_json writes
json_payload ==
    [users |-> [k \in DOMAIN dict_values(s_users) |->
                   UserRead_model_dump(dict_values(s_users)[k])],
     posts |-> [k \in DOMAIN dict_values(s_posts) |->
                   PostRead_model_dump(dict_values(s_posts)[k])],
     _user_seq |-> s_user_seq,
     _post_seq |-> s_post_seq]

\* load_from_json with the defaults of payload.get in place of the counters
loaded_with_default_counters(payload) ==
    LET us == loaded_users(payload)
        ps == loaded_posts(payload)
    IN  <<us, ps, Cardinality(DOMAIN us), Cardinality(DOMAIN ps)>>

\* what load_from_json makes of a payload: users, posts, _user_seq, _post_seq
loaded(payload) ==
    <<loaded_users(payload),
      loaded_posts(payload),
      payload._user_seq,
      payload._post_seq>>

Store_save_to_json ==
    /\ variant = "prototype"
    /\ data_file' = Some(json_payload)
    /\ Returned("Store.save_to_json", "ok")
    /\ UNCHANGED <<variant, store_vars, db_vars, now, sess, listing>>

Store_load_from_json ==
    /\ variant = "prototype"
    /\ IF data_file = NULL
       THEN UNCHANGED store_vars
       ELSE LET state == loaded(Get(data_file))
            IN  /\ s_users' = state[1]
                /\ s_posts' = state[2]
                /\ s_user_seq' = state[3]
                /\ s_post_seq' = state[4]
    /\ Returned("Store.load_from_json", "ok")
    /\ UNCHANGED <<variant, data_file, db_vars, now, sess, listing>>

\* on_shutdown -> store.save_to_json(); the process ends
on_shutdown ==
    /\ variant = "prototype"
    /\ data_file' = Some(json_payload)
    /\ Returned("on_shutdown", "ok")
    /\ UNCHANGED <<variant, store_vars, db_vars, now, sess, listing>>

\* a new process that does not read the file
on_startup_skips_load ==
    /\ variant = "prototype"
    /\ s_users' = <<>> /\ s_posts' = <<>> /\ s_user_seq' = 0 /\ s_post_seq' = 0
    /\ Returned("on_startup", "ok")
    /\ UNCHANGED <<variant, data_file, db_vars, now, sess, listing>>

\* a new process: store = Store(users={}, posts={}) at import (storage.py:119),
\* then on_startup -> store.load_from_json()
on_startup ==
    /\ variant = "prototype"
    /\ LET state == IF data_file = NULL THEN <<<<>>, <<>>, 0, 0>>
                     ELSE loaded(Get(data_file))
       IN  /\ s_users' = state[1]
           /\ s_posts' = state[2]
           /\ s_user_seq' = state[3]
           /\ s_post_seq' = state[4]
    /\ Returned("on_startup", "ok")
    /\ UNCHANGED <<variant, data_file, db_vars, now, sess, listing>>

\* =============================================================== relational
\* ----- the clock

Tick ==
    /\ now < MaxClock
    /\ now' = now + 1
    /\ UNCHANGED <<variant, data_file, store_vars, db_vars, sess, listing, last>>

\* ----- users

\* auth.get_password_hash: the stored credential is derived from the password.
get_password_hash(password) == <<"hash", password>>

get_user(user_id) == IF user_id \in DOMAIN users THEN Some(user_id) ELSE NULL

get_user_by_email(email) ==
    IF \E i \in DOMAIN users : users[i].email = email
    THEN Some(CHOOSE i \in DOMAIN users : users[i].email = email)
    ELSE NULL

get_user_by_login(login) ==
    IF \E i \in DOMAIN users : users[i].login = login
    THEN Some(CHOOSE i \in DOMAIN users : users[i].login = login)
    ELSE NULL

\* The unique columns of table users (models.py:39-40): the constraints a row
\* would violate, the row stored under except_id aside.
UserUniqueColumns_email_only == {"email"}
UserUniqueColumns == {"email", "login"}

UserConstraintsViolated(row, except_id) ==
    {c \in UserUniqueColumns :
        \E i \in DOMAIN users \ {except_id} : users[i][c] = row[c]}

\* str(e) of the IntegrityError raised by the INSERT into users, as the set of
\* words it contains: the violated constraint's column and the text of the
\* failed statement, which names every inserted column.
InsertUserColumns == {"email", "login", "password_hash", "full_name",
                      "is_active", "is_admin"}
IntegrityErrorStr(constraint) == {constraint} \cup InsertUserColumns

\* The except clause of create_user (crud.py:67-73).
create_user_except(msg) ==
    IF "email" \in msg THEN "ValueError: Email already registered"
    ELSE IF "login" \in msg THEN "ValueError: Login already taken"
    ELSE "IntegrityError"

\* crud.create_user: what it changes, and result, what it returns or raises.
create_user_commit(data, result) ==
    LET row == [email |-> data.email, login |-> data.login,
                password_hash |-> get_password_hash(data.password),
                full_name |-> data.full_name,
                is_active |-> IF "is_active" \in DOMAIN data THEN data.is_active
                              ELSE TRUE,
                is_admin |-> IF "is_admin" \in DOMAIN data THEN data.is_admin
                             ELSE FALSE,
                created_at |-> now]
        violated == UserConstraintsViolated(row, 0)
    IN  IF violated = {}
        THEN /\ user_id_seq' = user_id_seq + 1
             /\ users' = users @@ (user_id_seq' :> row)
             /\ result = "ok"
        ELSE /\ \E c \in violated : result = create_user_except(IntegrityErrorStr(c))
             /\ UNCHANGED user_vars

CreateUserResults == {"ok", "ValueError: Email already registered",
                      "ValueError: Login already taken", "IntegrityError"}

crud_create_user(data) ==
    /\ variant = "relational"
    /\ user_id_seq < MaxUserId
    /\ \E result \in CreateUserResults :
          /\ create_user_commit(data, result)
          /\ Returned("create_user", result)
    /\ UNCHANGED <<variant, data_file, store_vars, categories, post_vars, comment_vars,
                   social_vars, now, sess, listing>>

\* crud.update_user: fields that are None are skipped; the commit raises
\* IntegrityError, which nothing catches, when a unique column collides.
update_user_row(row, data) ==
    [email |-> IF IsSome(data.email) THEN Get(data.email) ELSE row.email,
     login |-> IF IsSome(data.login) THEN Get(data.login) ELSE row.login,
     password_hash |-> IF IsSome(data.password)
                       THEN get_password_hash(Get(data.password))
                       ELSE row.password_hash,
     full_name |-> IF IsSome(data.full_name) THEN data.full_name
                   ELSE row.full_name,
     is_active |-> row.is_active,
     is_admin |-> row.is_admin,
     created_at |-> row.created_at]

crud_update_user(user_id, data) ==
    /\ variant = "relational"
    /\ IF get_user(user_id) = NULL
       THEN /\ Returned("update_user", "None")
            /\ UNCHANGED user_vars
       ELSE LET row == update_user_row(users[user_id], data)
            IN  IF UserConstraintsViolated(row, user_id) = {}
                THEN /\ users' = [users EXCEPT ![user_id] = row]
                     /\ Returned("update_user", "ok")
                     /\ UNCHANGED user_id_seq
                ELSE /\ Returned("update_user", "IntegrityError")
                     /\ UNCHANGED user_vars
    /\ UNCHANGED <<variant, data_file, store_vars, categories, post_vars, comment_vars,
                   social_vars, now, sess, listing>>

\* crud.delete_user: db.delete(db_user) with the ORM cascades of models.py.
\*   User.posts, User.comments, Post.comments: cascade "all, delete-orphan"
\*   Comment.replies (backref, no delete cascade): a surviving reply of a
\*     deleted comment gets parent_id NULL
\*   liked_posts / liked_by, following / followers, Post.categories: the rows
\*     of the secondary table that name a deleted object are deleted
PostsOfUser(user_id) == {p \in DOMAIN posts : posts[p].author_id = user_id}

CommentsOfUserOrPosts_posts_only(user_id, ps) ==
    {c \in DOMAIN comments : comments[c].post_id \in ps}

CommentsOfUserOrPosts(user_id, ps) ==
    {c \in DOMAIN comments :
        comments[c].user_id = user_id \/ comments[c].post_id \in ps}

DeleteCommentRows(cs) ==
    [c \in DOMAIN comments \ cs |->
        IF IsSome(comments[c].parent_id) /\ Get(comments[c].parent_id) \in cs
        THEN [comments[c] EXCEPT !.parent_id = NULL]
        ELSE comments[c]]

BagWithout(b, S) == [k \in DOMAIN b \ S |-> b[k]]

DeletePostRows(ps, cs) ==
    /\ posts' = Without(posts, ps)
    /\ post_categories' = {pc \in post_categories : pc[1] \notin ps}
    /\ comments' = DeleteCommentRows(cs)

crud_delete_user(user_id) ==
    /\ variant = "relational"
    /\ IF get_user(user_id) = NULL
       THEN /\ Returned("delete_user", "False")
            /\ UNCHANGED db_vars
       ELSE LET ps == PostsOfUser(user_id)
                cs == CommentsOfUserOrPosts(user_id, ps)
            IN  /\ users' = Without(users, {user_id})
                /\ DeletePostRows(ps, cs)
                /\ favorites' = BagWithout(favorites,
                       {f \in DOMAIN favorites : f[1] = user_id \/ f[2] \in ps})
                /\ subscriptions' = BagWithout(subscriptions,
                       {f \in DOMAIN subscriptions : f[1] = user_id \/ f[2] = user_id})
                /\ Returned("delete_user", "True")
                /\ UNCHANGED <<user_id_seq, categories, post_id_seq, comment_id_seq>>
    /\ UNCHANGED <<variant, data_file, store_vars, now, sess, listing>>

\* ----- categories

CategoryUniqueColumns == {"name", "slug"}

CategoryConstraintsViolated(row, except_id) ==
    {c \in CategoryUniqueColumns :
        \E i \in DOMAIN categories \ {except_id} : categories[i][c] = row[c]}

\* crud.create_category: the INSERT, and the rollback and ValueError of a
\* colliding name or slug. No category is ever deleted in the model, so the
\* next id is the number of rows plus one.
crud_create_category(data) ==
    /\ variant = "relational"
    /\ Len(categories) + 1 \in CategoryIds
    /\ LET row == [name |-> data.name, slug |-> data.slug,
                   description |-> data.description]
       IN  IF CategoryConstraintsViolated(row, 0) = {}
           THEN /\ categories' = Append(categories, row)
                /\ Returned("create_category", "ok")
           ELSE /\ Returned("create_category",
                            "ValueError: Category name or slug already exists")
                /\ UNCHANGED categories
    /\ UNCHANGED <<variant, data_file, store_vars, user_vars, post_vars, comment_vars,
                   social_vars, now, sess, listing>>

\* crud.update_category: fields that are None are skipped; nothing catches
\* the IntegrityError of a colliding name or slug.
update_category_row(row, data) ==
    [name |-> IF IsSome(data.name) THEN Get(data.name) ELSE row.name,
     slug |-> IF IsSome(data.slug) THEN Get(data.slug) ELSE row.slug,
     description |-> IF IsSome(data.description) THEN data.description
                     ELSE row.description]

crud_update_category(category_id, data) ==
    /\ variant = "relational"
    /\ IF category_id \notin DOMAIN categories
       THEN /\ Returned("update_category", "None")
            /\ UNCHANGED categories
       ELSE LET row == update_category_row(categories[category_id], data)
            IN  IF CategoryConstraintsViolated(row, category_id) = {}
                THEN /\ categories' = [categories EXCEPT ![category_id] = row]
                     /\ Returned("update_category", "ok")
                ELSE /\ Returned("update_category", "IntegrityError")
                     /\ UNCHANGED categories
    /\ UNCHANGED <<variant, data_file, store_vars, user_vars, post_vars, comment_vars,
                   social_vars, now, sess, listing>>

\* ----- posts

\* Titles are strings, here sequences of characters.
UpperCase == {"H", "J"}
LowerCase == {"h", "i", "y", "o", "j", "n"}
lower(c) == IF c = "H" THEN "h" ELSE IF c = "J" THEN "j" ELSE c

\* slugify (python-slugify): lower-case the letters, turn every run of other
\* characters into one "-", strip "-" from both ends.
SlugChars(t) ==
    [i \in 1..Len(t) |-> IF t[i] \in UpperCase \cup LowerCase THEN lower(t[i]) ELSE "-"]

RECURSIVE Squeeze(_)
Squeeze(t) ==
    IF t = <<>> THEN <<>>
    ELSE IF Head(t) = "-" /\ (Tail(t) = <<>> \/ Head(Tail(t)) = "-")
    THEN Squeeze(Tail(t))
    ELSE <<Head(t)>> \o Squeeze(Tail(t))

StripLeft(t) == IF t # <<>> /\ Head(t) = "-" THEN Tail(t) ELSE t

slugify(title) == StripLeft(Squeeze(SlugChars(title)))

\* datetime.utcnow().strftime("%Y%m%d%H%M%S"): the clock cut to whole seconds.
strftime_seconds(t) == t \div TicksPerSecond

\* slugify(title) + "-" + the 14 digits of the second
make_slug(title, t) == <<slugify(title), strftime_seconds(t)>>

get_post(post_id) == IF post_id \in DOMAIN posts THEN Some(post_id) ELSE NULL

\* Post.slug is unique (models.py:104).
SlugTaken(slug) == \E i \in DOMAIN posts : posts[i].slug = slug

ExistingCategories(category_ids) == category_ids \cap DOMAIN categories

CategoriesOf(post_id) == {pc[2] : pc \in {x \in post_categories : x[1] = post_id}}

SetCategories(post_id, cats) ==
    {pc \in post_categories : pc[1] # post_id} \cup {<<post_id, c>> : c \in cats}

\* crud.create_post. data.is_published is NULL when the dict has no such key
\* (the column default True then applies); data.category_ids likewise.
crud_create_post(data) ==
    /\ variant = "relational"
    /\ post_id_seq < MaxPostId
    /\ LET slug == make_slug(data.title, now)
           published == IsSome(data.is_published) /\ Get(data.is_published)
           row == [author_id |-> data.author_id,
                   title |-> data.title,
                   slug |-> slug,
                   content |-> data.content,
                   summary |-> data.summary,
                   is_published |-> IF IsSome(data.is_published)
                                    THEN Get(data.is_published) ELSE TRUE,
                   published_at |-> IF published THEN Some(now) ELSE NULL,
                   view_count |-> 0]
       IN  IF get_user(data.author_id) = NULL \/ SlugTaken(slug)
           THEN /\ Returned("create_post", "IntegrityError")
                /\ UNCHANGED post_vars
           ELSE /\ post_id_seq' = post_id_seq + 1
                /\ posts' = posts @@ (post_id_seq' :> row)
                /\ post_categories' =
                      IF IsSome(data.category_ids) /\ Get(data.category_ids) # {}
                      THEN SetCategories(post_id_seq',
                                         ExistingCategories(Get(data.category_ids)))
                      ELSE post_categories
                /\ Returned("create_post", "ok")
    /\ UNCHANGED <<variant, data_file, store_vars, user_vars, categories, comment_vars,
                   social_vars, now, sess, listing>>

\* crud.update_post: the loop over the given fields, the category set, the
\* update time and the first-publish stamp.
UpdatedPost(row, data, slug, published_at) ==
    [author_id |-> row.author_id,
     title |-> IF IsSome(data.title) THEN Get(data.title) ELSE row.title,
     slug |-> slug,
     content |-> IF IsSome(data.content) THEN Get(data.content) ELSE row.content,
     summary |-> IF IsSome(data.summary) THEN data.summary ELSE row.summary,
     is_published |-> IF IsSome(data.is_published) THEN Get(data.is_published)
                      ELSE row.is_published,
     published_at |-> published_at,
     view_count |-> row.view_count]

update_post_row_restamp(row, data) ==
    UpdatedPost(row, data, row.slug,
                IF IsSome(data.is_published) /\ Get(data.is_published)
                THEN Some(now) ELSE row.published_at)

update_post_row_reslug(row, data) ==
    UpdatedPost(row, data,
                IF IsSome(data.title) THEN make_slug(Get(data.title), now) ELSE row.slug,
                IF IsSome(data.is_published) /\ Get(data.is_published)
                   /\ row.published_at = NULL
                THEN Some(now) ELSE row.published_at)

update_post_row_assigns_none(row, data) ==
    [UpdatedPost(row, data, row.slug,
                 IF IsSome(data.is_published) /\ Get(data.is_published)
                    /\ row.published_at = NULL
                 THEN Some(now) ELSE row.published_at)
     EXCEPT !.summary = data.summary]

update_post_row(row, data) ==
    UpdatedPost(row, data, row.slug,
                IF IsSome(data.is_published) /\ Get(data.is_published)
                   /\ row.published_at = NULL
                THEN Some(now) ELSE row.published_at)

crud_update_post(post_id, data) ==
    /\ variant = "relational"
    /\ IF get_post(post_id) = NULL
       THEN /\ Returned("update_post", "None")
            /\ UNCHANGED post_vars
       ELSE /\ posts' = [posts EXCEPT ![post_id] = update_post_row(@, data)]
            /\ post_categories' =
                  IF IsSome(data.category_ids) /\ Get(data.category_ids) # {}
                  THEN SetCategories(post_id, ExistingCategories(Get(data.category_ids)))
                  ELSE post_categories
            /\ Returned("update_post", "ok")
            /\ UNCHANGED post_id_seq
    /\ UNCHANGED <<variant, data_file, store_vars, user_vars, categories, comment_vars,
                   social_vars, now, sess, listing>>

\* crud.delete_post: Post.comments cascades; the rows of post_categories and
\* favorites that name the post go with it.
crud_delete_post(post_id) ==
    /\ variant = "relational"
    /\ IF get_post(post_id) = NULL
       THEN /\ Returned("delete_post", "False")
            /\ UNCHANGED <<post_vars, comment_vars, social_vars>>
       ELSE /\ DeletePostRows({post_id},
                   {c \in DOMAIN comments : comments[c].post_id = post_id})
            /\ favorites' = BagWithout(favorites,
                   {f \in DOMAIN favorites : f[2] = post_id})
            /\ Returned("delete_post", "True")
            /\ UNCHANGED <<post_id_seq, comment_id_seq, subscriptions>>
    /\ UNCHANGED <<variant, data_file, store_vars, user_vars, categories, now, sess, listing>>

\* ----- search and listing

\* column.ilike(pattern): both sides lower-cased, then LIKE, in whose pattern
\* "%" stands for any run of characters and "_" for any one character.
lower_text(t) == [i \in 1..Len(t) |-> lower(t[i])]

RECURSIVE like(_, _)
like(t, pattern) ==
    IF pattern = <<>> THEN t = <<>>
    ELSE IF Head(pattern) = "%"
    THEN \E k \in 0..Len(t) : like(SubSeq(t, k + 1, Len(t)), Tail(pattern))
    ELSE /\ t # <<>>
         /\ Head(pattern) = "_" \/ Head(pattern) = Head(t)
         /\ like(Tail(t), Tail(pattern))

\* a NULL column matches nothing
ilike(column, pattern) ==
    /\ column # NULL
    /\ like(lower_text(Get(column)), lower_text(pattern))

\* f"%{search}%"
contains_pattern(search) == <<"%">> \o search \o <<"%">>

\* Python truth of an optional argument: None, 0, "" and False are false
Truthy(arg, empty) == arg # NULL /\ Get(arg) # empty

get_posts_filter_any(post_id, author_id, category_id, is_published, search) ==
    LET post == posts[post_id]
    IN  /\ Truthy(is_published, FALSE) => post.is_published
        /\ \/ Truthy(author_id, 0) /\ post.author_id = Get(author_id)
           \/ Truthy(category_id, 0) /\ <<post_id, Get(category_id)>> \in post_categories
           \/ Truthy(search, <<>>) /\
                 \/ ilike(Some(post.title), contains_pattern(Get(search)))
                 \/ ilike(Some(post.content), contains_pattern(Get(search)))
                 \/ ilike(post.summary, contains_pattern(Get(search)))
           \/ ~Truthy(author_id, 0) /\ ~Truthy(category_id, 0) /\ ~Truthy(search, <<>>)

\* the filters crud.get_posts puts on the query (crud.py:145-161)
get_posts_filter(post_id, author_id, category_id, is_published, search) ==
    LET post == posts[post_id]
    IN  /\ Truthy(is_published, FALSE) => post.is_published
        /\ Truthy(author_id, 0) => post.author_id = Get(author_id)
        /\ Truthy(category_id, 0) => <<post_id, Get(category_id)>> \in post_categories
        /\ Truthy(search, <<>>) =>
              \/ ilike(Some(post.title), contains_pattern(Get(search)))
              \/ ilike(Some(post.content), contains_pattern(Get(search)))
              \/ ilike(post.summary, contains_pattern(Get(search)))

\* crud.get_posts with skip and limit at their defaults; the result is kept
\* as the set of the posts returned.
crud_get_posts(author_id, category_id, is_published, search) ==
    /\ variant = "relational"
    /\ Returned("get_posts",
                {p \in DOMAIN posts :
                    get_posts_filter(p, author_id, category_id, is_published, search)})
    /\ UNCHANGED <<variant, data_file, store_vars, db_vars, now, sess, listing>>

\* the filters crud.get_users puts on the query (crud.py:41-51)
get_users_filter(user_id, search, is_active) ==
    LET user == users[user_id]
    IN  /\ Truthy(search, <<>>) =>
              \/ ilike(Some(user.login), contains_pattern(Get(search)))
              \/ ilike(Some(user.email), contains_pattern(Get(search)))
              \/ ilike(user.full_name, contains_pattern(Get(search)))
        /\ is_active # NULL => user.is_active = Get(is_active)

\* the ways a database may list rows under ORDER BY created_at DESC: rows of
\* equal created_at come in any order
OrderedByCreatedAtDesc(ids) ==
    {order \in [1..Cardinality(ids) -> ids] :
        /\ \A i, j \in DOMAIN order : i # j => order[i] # order[j]
        /\ \A i, j \in DOMAIN order :
              i < j => users[order[i]].created_at >= users[order[j]].created_at}

\* crud.get_users with skip and limit at their defaults
crud_get_users(search, is_active) ==
    /\ variant = "relational"
    /\ \E order \in OrderedByCreatedAtDesc(
              {u \in DOMAIN users : get_users_filter(u, search, is_active)}) :
          Returned("get_users", order)
    /\ UNCHANGED <<variant, data_file, store_vars, db_vars, now, sess, listing>>

\* ----- comments

get_comment(comment_id) == IF comment_id \in DOMAIN comments THEN Some(comment_id) ELSE NULL

route_create_comment_skips_published(post_id, user_id, data) ==
    /\ variant = "relational"
    /\ user_id \in DOMAIN users
    /\ comment_id_seq < MaxCommentId
    /\ IF get_post(post_id) = NULL
       THEN /\ Returned("create_comment", "404")
            /\ UNCHANGED comment_vars
       ELSE IF IsSome(data.parent_id) /\ get_comment(Get(data.parent_id)) = NULL
       THEN /\ Returned("create_comment", "IntegrityError")
            /\ UNCHANGED comment_vars
       ELSE /\ comment_id_seq' = comment_id_seq + 1
            /\ comments' = comments @@ (comment_id_seq' :>
                   [post_id |-> post_id, user_id |-> user_id,
                    content |-> data.content, parent_id |-> data.parent_id,
                    is_edited |-> FALSE])
            /\ Returned("create_comment", "201")
    /\ UNCHANGED <<variant, data_file, store_vars, user_vars, categories, post_vars,
                   social_vars, now, sess, listing>>

\* POST /posts/{post_id}/comments by the authenticated user_id: get_post_or_404,
\* the published check, then crud.create_comment (parent_id is a foreign key).
route_create_comment(post_id, user_id, data) ==
    /\ variant = "relational"
    /\ user_id \in DOMAIN users
    /\ comment_id_seq < MaxCommentId
    /\ IF get_post(post_id) = NULL
       THEN /\ Returned("create_comment", "404")
            /\ UNCHANGED comment_vars
       ELSE IF ~posts[post_id].is_published
       THEN /\ Returned("create_comment", "403")
            /\ UNCHANGED comment_vars
       ELSE IF IsSome(data.parent_id) /\ get_comment(Get(data.parent_id)) = NULL
       THEN /\ Returned("create_comment", "IntegrityError")
            /\ UNCHANGED comment_vars
       ELSE /\ comment_id_seq' = comment_id_seq + 1
            /\ comments' = comments @@ (comment_id_seq' :>
                   [post_id |-> post_id, user_id |-> user_id,
                    content |-> data.content, parent_id |-> data.parent_id,
                    is_edited |-> FALSE])
            /\ Returned("create_comment", "201")
    /\ UNCHANGED <<variant, data_file, store_vars, user_vars, categories, post_vars,
                   social_vars, now, sess, listing>>

crud_delete_comment(comment_id) ==
    /\ variant = "relational"
    /\ IF get_comment(comment_id) = NULL
       THEN /\ Returned("delete_comment", "False")
            /\ UNCHANGED comments
       ELSE /\ comments' = DeleteCommentRows({comment_id})
            /\ Returned("delete_comment", "True")
    /\ UNCHANGED <<variant, data_file, store_vars, user_vars, categories, post_vars,
                   comment_id_seq, social_vars, now, sess, listing>>

\* ----- owner-only routes
\* current_user is the id of the user the credential of the request resolved to.

verify_post_owner_no_admin(post_id, current_user) ==
    IF get_post(post_id) = NULL THEN "404"
    ELSE IF posts[post_id].author_id # current_user THEN "403"
    ELSE "ok"

verify_post_owner(post_id, current_user) ==
    IF get_post(post_id) = NULL THEN "404"
    ELSE IF posts[post_id].author_id # current_user /\ ~users[current_user].is_admin
    THEN "403"
    ELSE "ok"

verify_comment_owner(comment_id, current_user) ==
    IF get_comment(comment_id) = NULL THEN "404"
    ELSE IF comments[comment_id].user_id # current_user /\ ~users[current_user].is_admin
    THEN "403"
    ELSE "ok"

\* PUT /posts/{post_id}: verify_post_owner, then crud.update_post
route_update_post(post_id, current_user, data) ==
    /\ variant = "relational"
    /\ current_user \in DOMAIN users
    /\ LET verdict == verify_post_owner(post_id, current_user)
       IN  IF verdict # "ok"
           THEN /\ Returned("PUT /posts", verdict)
                /\ UNCHANGED post_vars
           ELSE /\ posts' = [posts EXCEPT ![post_id] = update_post_row(@, data)]
                /\ post_categories' =
                      IF IsSome(data.category_ids) /\ Get(data.category_ids) # {}
                      THEN SetCategories(post_id, ExistingCategories(Get(data.category_ids)))
                      ELSE post_categories
                /\ Returned("PUT /posts", "200")
                /\ UNCHANGED post_id_seq
    /\ UNCHANGED <<variant, data_file, store_vars, user_vars, categories, comment_vars,
                   social_vars, now, sess, listing>>

\* DELETE /posts/{post_id}: verify_post_owner, then crud.delete_post
route_delete_post(post_id, current_user) ==
    /\ variant = "relational"
    /\ current_user \in DOMAIN users
    /\ LET verdict == verify_post_owner(post_id, current_user)
       IN  IF verdict # "ok"
           THEN /\ Returned("DELETE /posts", verdict)
                /\ UNCHANGED <<post_vars, comment_vars, social_vars>>
           ELSE /\ DeletePostRows({post_id},
                       {c \in DOMAIN comments : comments[c].post_id = post_id})
                /\ favorites' = BagWithout(favorites,
                       {f \in DOMAIN favorites : f[2] = post_id})
                /\ Returned("DELETE /posts", "204")
                /\ UNCHANGED <<post_id_seq, comment_id_seq, subscriptions>>
    /\ UNCHANGED <<variant, data_file, store_vars, user_vars, categories, now, sess, listing>>

\* the update without the edited flag
route_update_comment_no_flag(comment_id, current_user, data) ==
    /\ variant = "relational"
    /\ current_user \in DOMAIN users
    /\ LET verdict == verify_comment_owner(comment_id, current_user)
       IN  IF verdict # "ok"
           THEN /\ Returned("PUT /comments", verdict)
                /\ UNCHANGED comments
           ELSE /\ comments' = [comments EXCEPT ![comment_id] =
                       [@ EXCEPT !.content = data.content]]
                /\ Returned("PUT /comments", "200")
    /\ UNCHANGED <<variant, data_file, store_vars, user_vars, categories, post_vars,
                   comment_id_seq, social_vars, now, sess, listing>>

\* PUT /comments/{comment_id}: verify_comment_owner, then crud.update_comment
route_update_comment(comment_id, current_user, data) ==
    /\ variant = "relational"
    /\ current_user \in DOMAIN users
    /\ LET verdict == verify_comment_owner(comment_id, current_user)
       IN  IF verdict # "ok"
           THEN /\ Returned("PUT /comments", verdict)
                /\ UNCHANGED comments
           ELSE /\ comments' = [comments EXCEPT ![comment_id] =
                       [@ EXCEPT !.content = data.content, !.is_edited = TRUE]]
                /\ Returned("PUT /comments", "200")
    /\ UNCHANGED <<variant, data_file, store_vars, user_vars, categories, post_vars,
                   comment_id_seq, social_vars, now, sess, listing>>

\* DELETE /comments/{comment_id}: verify_comment_owner, then crud.delete_comment
route_delete_comment(comment_id, current_user) ==
    /\ variant = "relational"
    /\ current_user \in DOMAIN users
    /\ LET verdict == verify_comment_owner(comment_id, current_user)
       IN  IF verdict # "ok"
           THEN /\ Returned("DELETE /comments", verdict)
                /\ UNCHANGED comments
           ELSE /\ comments' = DeleteCommentRows({comment_id})
                /\ Returned("DELETE /comments", "204")
    /\ UNCHANGED <<variant, data_file, store_vars, user_vars, categories, post_vars,
                   comment_id_seq, social_vars, now, sess, listing>>

\* ----- favorites

\* The rows of a table with a composite primary key are kept as a bag; the
\* primary key is what the INSERT checks.
PrimaryKeyViolated(table, row) == BagIn(row, table)
InsertRow(table, row) == table (+) SetToBag({row})
DeleteRows(table, row) == BagWithout(table, {row})

is_favorited(user_id, post_id) == BagIn(<<user_id, post_id>>, favorites)

\* crud.add_favorite, run without another request in between: the select,
\* then the insert (user_id and post_id are foreign keys).
crud_add_favorite(user_id, post_id) ==
    /\ variant = "relational"
    /\ IF is_favorited(user_id, post_id)
       THEN /\ Returned("add_favorite", "False")
            /\ UNCHANGED favorites
       ELSE IF \/ user_id \notin DOMAIN users \/ post_id \notin DOMAIN posts
               \/ PrimaryKeyViolated(favorites, <<user_id, post_id>>)
       THEN /\ Returned("add_favorite", "IntegrityError")
            /\ UNCHANGED favorites
       ELSE /\ favorites' = InsertRow(favorites, <<user_id, post_id>>)
            /\ Returned("add_favorite", "True")
    /\ UNCHANGED <<variant, data_file, store_vars, user_vars, categories, post_vars,
                   comment_vars, subscriptions, now, sess, listing>>

remove_favorite_keeps_row(user_id, post_id) ==
    /\ variant = "relational"
    /\ UNCHANGED favorites
    /\ Returned("remove_favorite",
                IF CopiesIn(<<user_id, post_id>>, favorites) > 0 THEN "True" ELSE "False")
    /\ UNCHANGED <<variant, data_file, store_vars, user_vars, categories, post_vars,
                   comment_vars, subscriptions, now, sess, listing>>

\* crud.remove_favorite: rowcount > 0
crud_remove_favorite(user_id, post_id) ==
    /\ variant = "relational"
    /\ favorites' = DeleteRows(favorites, <<user_id, post_id>>)
    /\ Returned("remove_favorite",
                IF CopiesIn(<<user_id, post_id>>, favorites) > 0 THEN "True" ELSE "False")
    /\ UNCHANGED <<variant, data_file, store_vars, user_vars, categories, post_vars,
                   comment_vars, subscriptions, now, sess, listing>>

crud_is_favorited(user_id, post_id) ==
    /\ variant = "relational"
    /\ Returned("is_favorited", IF is_favorited(user_id, post_id) THEN "True" ELSE "False")
    /\ UNCHANGED <<variant, data_file, store_vars, db_vars, now, sess, listing>>

\* routes.add_to_favorites, for the authenticated user current_user
add_to_favorites(post_id, current_user) ==
    /\ variant = "relational"
    /\ IF get_post(post_id) = NULL
       THEN /\ Returned("add_to_favorites", 404)
            /\ UNCHANGED favorites
       ELSE IF ~posts[post_id].is_published
       THEN /\ Returned("add_to_favorites", 403)
            /\ UNCHANGED favorites
       ELSE IF is_favorited(current_user, post_id)
       THEN /\ Returned("add_to_favorites", 400)
            /\ UNCHANGED favorites
       ELSE /\ favorites' = InsertRow(favorites, <<current_user, post_id>>)
            /\ Returned("add_to_favorites", 201)
    /\ UNCHANGED <<variant, data_file, store_vars, user_vars, categories, post_vars,
                   comment_vars, subscriptions, now, sess, listing>>

\* routes.remove_from_favorites
remove_from_favorites(post_id, current_user) ==
    /\ variant = "relational"
    /\ favorites' = DeleteRows(favorites, <<current_user, post_id>>)
    /\ Returned("remove_from_favorites",
                IF CopiesIn(<<current_user, post_id>>, favorites) > 0 THEN 204 ELSE 404)
    /\ UNCHANGED <<variant, data_file, store_vars, user_vars, categories, post_vars,
                   comment_vars, subscriptions, now, sess, listing>>

\* ----- follows

is_following(follower_id, following_id) ==
    BagIn(<<follower_id, following_id>>, subscriptions)

\* The INSERT into subscriptions: primary key, foreign keys, and
\* check_no_self_follow (models.py:33).
SubscriptionInsertRejected(follower_id, following_id) ==
    \/ PrimaryKeyViolated(subscriptions, <<follower_id, following_id>>)
    \/ follower_id \notin DOMAIN users
    \/ following_id \notin DOMAIN users
    \/ follower_id = following_id

\* crud.follow_user, run without another request in between.
crud_follow_user(follower_id, following_id) ==
    /\ variant = "relational"
    /\ IF is_following(follower_id, following_id) \/ follower_id = following_id
       THEN /\ Returned("follow_user", "False")
            /\ UNCHANGED subscriptions
       ELSE IF SubscriptionInsertRejected(follower_id, following_id)
       THEN /\ Returned("follow_user", "IntegrityError")
            /\ UNCHANGED subscriptions
       ELSE /\ subscriptions' = InsertRow(subscriptions, <<follower_id, following_id>>)
            /\ Returned("follow_user", "True")
    /\ UNCHANGED <<variant, data_file, store_vars, user_vars, categories, post_vars,
                   comment_vars, favorites, now, sess, listing>>

\* crud.follow_user, unfollow_user and is_following as run by concurrent
\* requests: one step per statement executed on the database. A request is
\* [op, pair]; its session holds what the call returned or raised.
Call(op, a, b) == [op |-> op, pair |-> <<a, b>>]
Ready(s) == sess[s].pc \in {"idle", "done"}
Returns(s, call, result) ==
    sess' = [sess EXCEPT ![s] = [pc |-> "done", data |-> Some(call), out |-> Some(result)]]

follow_user_select_ignores_self(s, follower_id, following_id) ==
    /\ variant = "relational"
    /\ Ready(s)
    /\ IF is_following(follower_id, following_id)
       THEN Returns(s, Call("follow_user", follower_id, following_id), "False")
       ELSE sess' = [sess EXCEPT ![s] =
                [pc |-> "follow_insert",
                 data |-> Some(Call("follow_user", follower_id, following_id)),
                 out |-> NULL]]
    /\ UNCHANGED <<variant, data_file, store_vars, db_vars, now, listing, last>>

\* the select of the existing row, and the test on it (crud.py:438-446)
follow_user_select(s, follower_id, following_id) ==
    /\ variant = "relational"
    /\ Ready(s)
    /\ IF is_following(follower_id, following_id) \/ follower_id = following_id
       THEN Returns(s, Call("follow_user", follower_id, following_id), "False")
       ELSE sess' = [sess EXCEPT ![s] =
                [pc |-> "follow_insert",
                 data |-> Some(Call("follow_user", follower_id, following_id)),
                 out |-> NULL]]
    /\ UNCHANGED <<variant, data_file, store_vars, db_vars, now, listing, last>>

\* the insert and the commit (crud.py:447-454)
follow_user_insert(s) ==
    /\ variant = "relational"
    /\ sess[s].pc = "follow_insert"
    /\ LET call == Get(sess[s].data)
       IN  IF SubscriptionInsertRejected(call.pair[1], call.pair[2])
           THEN /\ Returns(s, call, "IntegrityError")
                /\ UNCHANGED subscriptions
           ELSE /\ subscriptions' = InsertRow(subscriptions, call.pair)
                /\ Returns(s, call, "True")
    /\ UNCHANGED <<variant, data_file, store_vars, user_vars, categories, post_vars,
                   comment_vars, favorites, now, listing, last>>

\* crud.unfollow_user: one DELETE, rowcount > 0
unfollow_user(s, follower_id, following_id) ==
    /\ variant = "relational"
    /\ Ready(s)
    /\ subscriptions' = DeleteRows(subscriptions, <<follower_id, following_id>>)
    /\ Returns(s, Call("unfollow_user", follower_id, following_id),
               IF CopiesIn(<<follower_id, following_id>>, subscriptions) > 0
               THEN "True" ELSE "False")
    /\ UNCHANGED <<variant, data_file, store_vars, user_vars, categories, post_vars,
                   comment_vars, favorites, now, listing, last>>

crud_is_following(s, follower_id, following_id) ==
    /\ variant = "relational"
    /\ Ready(s)
    /\ Returns(s, Call("is_following", follower_id, following_id),
               IF is_following(follower_id, following_id) THEN "True" ELSE "False")
    /\ UNCHANGED <<variant, data_file, store_vars, db_vars, now, listing, last>>

\* ----- reading a post and counting the view
\* GET /posts/{post_id} answers, and hands crud.increment_post_views to the
\* background tasks, which run it after the response; a session is one
\* request with its task. current_user is NULL for a request without a user.

Reading(post_id, seen) == [op |-> "get_post", post_id |-> post_id, seen |-> seen]
PendingViews(post_id) ==
    Cardinality({s \in Sessions : sess[s].pc = "increment_post_views"
                                  /\ Get(sess[s].data).post_id = post_id})

route_get_post(s, post_id, current_user) ==
    /\ variant = "relational"
    /\ Ready(s)
    /\ current_user # NULL => Get(current_user) \in DOMAIN users
    /\ IF get_post(post_id) = NULL
       THEN Returns(s, Reading(post_id, 0), "404")
       ELSE IF /\ ~posts[post_id].is_published
               /\ \/ current_user = NULL
                  \/ /\ posts[post_id].author_id # Get(current_user)
                     /\ ~users[Get(current_user)].is_admin
       THEN Returns(s, Reading(post_id, 0), "403")
       ELSE /\ posts[post_id].view_count + PendingViews(post_id) < MaxViews
            /\ sess' = [sess EXCEPT ![s] =
                  [pc |-> "increment_post_views",
                   data |-> Some(Reading(post_id, posts[post_id].view_count)),
                   out |-> Some("200")]]
    /\ UNCHANGED <<variant, data_file, store_vars, db_vars, now, listing, last>>

increment_post_views_from_read(s) ==
    /\ variant = "relational"
    /\ sess[s].pc = "increment_post_views"
    /\ LET post_id == Get(sess[s].data).post_id
       IN  posts' = [p \in DOMAIN posts |->
                        IF p = post_id
                        THEN [posts[p] EXCEPT !.view_count = Get(sess[s].data).seen + 1]
                        ELSE posts[p]]
    /\ sess' = [sess EXCEPT ![s].pc = "done"]
    /\ UNCHANGED <<variant, data_file, store_vars, user_vars, categories, post_id_seq,
                   post_categories, comment_vars, social_vars, now, listing, last>>

\* crud.increment_post_views: one UPDATE posts SET view_count = view_count + 1
\* WHERE id = post_id, and the commit
increment_post_views(s) ==
    /\ variant = "relational"
    /\ sess[s].pc = "increment_post_views"
    /\ LET post_id == Get(sess[s].data).post_id
       IN  posts' = [p \in DOMAIN posts |->
                        IF p = post_id
                        THEN [posts[p] EXCEPT !.view_count = @ + 1]
                        ELSE posts[p]]
    /\ sess' = [sess EXCEPT ![s].pc = "done"]
    /\ UNCHANGED <<variant, data_file, store_vars, user_vars, categories, post_id_seq,
                   post_categories, comment_vars, social_vars, now, listing, last>>

\* ----- POST /auth/login (routes.py:52-84)

\* auth.verify_password: the password is the one the stored hash derives from
verify_password(password, password_hash) == get_password_hash(password) = password_hash

\* auth.create_access_token: a token for the subject
create_access_token(user_id, is_admin) == Some([sub |-> user_id, is_admin |-> is_admin])

LoginResponse(status, detail, token) ==
    [status |-> status, detail |-> detail, token |-> token]

route_login_names_missing_user(username, password) ==
    /\ variant = "relational"
    /\ LET by_email == get_user_by_email(username)
           user == IF by_email # NULL THEN by_email ELSE get_user_by_login(username)
       IN  IF user = NULL
           THEN Returned("login", LoginResponse(401, "User not found", NULL))
           ELSE IF ~verify_password(password, users[Get(user)].password_hash)
           THEN Returned("login", LoginResponse(401, "Incorrect username or password", NULL))
           ELSE IF ~users[Get(user)].is_active
           THEN Returned("login", LoginResponse(400, "Inactive user", NULL))
           ELSE Returned("login", LoginResponse(200, "",
                    create_access_token(Get(user), users[Get(user)].is_admin)))
    /\ UNCHANGED <<variant, data_file, store_vars, db_vars, now, sess, listing>>

route_login(username, password) ==
    /\ variant = "relational"
    /\ LET by_email == get_user_by_email(username)
           user == IF by_email # NULL THEN by_email ELSE get_user_by_login(username)
       IN  IF user = NULL \/ ~verify_password(password, users[Get(user)].password_hash)
           THEN Returned("login", LoginResponse(401, "Incorrect username or password", NULL))
           ELSE IF ~users[Get(user)].is_active
           THEN Returned("login", LoginResponse(400, "Inactive user", NULL))
           ELSE Returned("login", LoginResponse(200, "",
                    create_access_token(Get(user), users[Get(user)].is_admin)))
    /\ UNCHANGED <<variant, data_file, store_vars, db_vars, now, sess, listing>>

\* ----- pagination
\* listing is the ordered result of the listing query before its offset and
\* limit are applied (crud.py:140-166, storage.py:73-78).

\* Query(1, ge=1) and Query(20, ge=1, le=100) of get_pagination_params
MinPage == 1
MinPageSize == 1
DefaultPageSize == 20
MaxPageSize == 100

Min(a, b) == IF a < b THEN a ELSE b
Max(a, b) == IF a > b THEN a ELSE b

get_pagination_params_skips_page(page, page_size) ==
    [skip |-> page * page_size, limit |-> page_size]

get_pagination_params(page, page_size) ==
    [skip |-> (page - 1) * page_size, limit |-> page_size]

\* query.offset(skip).limit(limit).all()
offset_limit(rows, skip, limit) ==
    [i \in 1..Max(0, Min(limit, Len(rows) - skip)) |-> rows[skip + i]]

\* vals[offset: offset + limit], for offset >= 0 and limit >= 0
list_slice(vals, offset, limit) ==
    LET start == Min(offset, Len(vals))
        stop == Max(start, Min(offset + limit, Len(vals)))
    IN  [i \in 1..(stop - start) |-> vals[start + i]]

PageResponse(status, a, b, items) ==
    [status |-> status, page |-> a, page_size |-> b, items |-> items]

\* routes.list_posts -> crud.get_posts, with the query parameters validated
list_posts(page, page_size) ==
    /\ variant = "relational"
    /\ IF page < MinPage \/ page_size < MinPageSize \/ page_size > MaxPageSize
       THEN Returned("list_posts", PageResponse(422, page, page_size, <<>>))
       ELSE LET pagination == get_pagination_params(page, page_size)
            IN  Returned("list_posts", PageResponse(200, page, page_size,
                    offset_limit(listing, pagination.skip, pagination.limit)))
    /\ UNCHANGED <<variant, data_file, store_vars, db_vars, now, sess, listing>>

\* app.routes.list_posts -> Store.list_posts
Store_list_posts(offset, limit) ==
    /\ variant = "prototype"
    /\ Returned("Store.list_posts", PageResponse(200, offset, limit,
            list_slice(listing, offset, limit)))
    /\ UNCHANGED <<variant, data_file, store_vars, db_vars, now, sess, listing>>

\* ----- POST /auth/register (routes.py:21-49), one step per database call

Response(status, detail) == [status |-> status, detail |-> detail]

Finish(s, data, out) ==
    sess' = [sess EXCEPT ![s] = [pc |-> "done", data |-> Some(data), out |-> Some(out)]]

register_check_email(s, data) ==
    /\ variant = "relational"
    /\ sess[s].pc = "idle"
    /\ IF get_user_by_email(data.email) # NULL
       THEN Finish(s, data, Response(400, "Email already registered"))
       ELSE sess' = [sess EXCEPT ![s] =
                [pc |-> "check_login", data |-> Some(data), out |-> NULL]]
    /\ UNCHANGED <<variant, data_file, store_vars, db_vars, now, listing, last>>

register_check_login(s) ==
    /\ variant = "relational"
    /\ sess[s].pc = "check_login"
    /\ LET data == Get(sess[s].data)
       IN  IF get_user_by_login(data.login) # NULL
           THEN Finish(s, data, Response(400, "Login already taken"))
           ELSE sess' = [sess EXCEPT ![s].pc = "create_user"]
    /\ UNCHANGED <<variant, data_file, store_vars, db_vars, now, listing, last>>

\* The call of crud.create_user and the route's except ValueError.
register_create_user(s) ==
    /\ variant = "relational"
    /\ sess[s].pc = "create_user"
    /\ user_id_seq < MaxUserId
    /\ LET data == Get(sess[s].data)
       IN  \E result \in CreateUserResults :
              /\ create_user_commit(data, result)
              /\ Finish(s, data,
                    IF result = "ok" THEN Response(201, "created")
                    ELSE IF result = "IntegrityError"
                    THEN Response(500, "IntegrityError")
                    ELSE Response(400, result))
    /\ UNCHANGED <<variant, data_file, store_vars, categories, post_vars, comment_vars,
                   social_vars, now, listing, last>>

\* =========================================================== specifications
\* ----- users of both variants: create, update, delete

StoreUserCreateInputs == [email : Emails, login : Logins]
StoreUserUpdateInputs == [email : Opt(Emails), login : Opt(Logins)]
UserCreateInputs == [email : Emails, login : Logins, password : Passwords,
                     full_name : {NULL}]
UserUpdateInputs == [email : Opt(Emails), login : Opt(Logins), password : {NULL},
                     full_name : {NULL}]

InitUsers ==
    /\ variant \in {"prototype", "relational"}
    /\ EmptyState

NextUsers ==
    \/ \E data \in StoreUserCreateInputs : Store_create_user(data)
    \/ \E id \in UserIds, data \in StoreUserUpdateInputs : Store_update_user(id, data)
    \/ \E id \in UserIds : Store_delete_user(id)
    \/ \E data \in UserCreateInputs : crud_create_user(data)
    \/ \E id \in UserIds, data \in UserUpdateInputs : crud_update_user(id, data)
    \/ \E id \in UserIds : crud_delete_user(id)

SpecUsers == InitUsers /\ [][NextUsers]_vars

Distinct(f, field) ==
    \A i \in DOMAIN f : \A j \in DOMAIN f : i # j => f[i][field] # f[j][field]

\* C1: no two stored users share an email and no two share a login, in the
\* store of the prototype and in table users alike.
EmailAndLoginUnique ==
    /\ Distinct(s_users, "email") /\ Distinct(s_users, "login")
    /\ Distinct(users, "email") /\ Distinct(users, "login")

\* Two users stored after three creations, one deletion and a successful update.
EmailAndLoginUniqueWitness ==
    /\ variant = "prototype"
    /\ Cardinality(DOMAIN s_users) = 2
    /\ s_user_seq = 3
    /\ last.op = "Store.update_user" /\ last.result = "ok"

\* ----- two registration requests racing on an empty database

RegisterInputs == [email : Emails, login : Logins, password : Passwords,
                   full_name : {NULL}]

InitRegister ==
    /\ variant = "relational"
    /\ EmptyState

NextRegister ==
    \/ \E s \in Sessions, data \in RegisterInputs : register_check_email(s, data)
    \/ \E s \in Sessions : register_check_login(s)
    \/ \E s \in Sessions : register_create_user(s)

SpecRegister == InitRegister /\ [][NextRegister]_vars

Done(s) == sess[s].pc = "done"
Req(s) == Get(sess[s].data)
Status(s) == Get(sess[s].out).status

\* C2: of two finished registrations with the same email or the same login,
\* one was created (201) and the other ended in the 400 conflict; no request
\* ends in an unhandled storage error.
RegisterRaceOneWinner ==
    /\ \A s \in Sessions : Done(s) => Status(s) \in {201, 400}
    /\ \A s \in Sessions : \A t \in Sessions \ {s} :
          (Done(s) /\ Done(t) /\ (Req(s).email = Req(t).email \/ Req(s).login = Req(t).login))
              => {Status(s), Status(t)} = {201, 400}

\* Both lookups of both requests passed, and the commit of the second one
\* hit the unique constraint on login.
RegisterRaceWitness ==
    /\ Done(1) /\ Done(2)
    /\ Req(1).login = Req(2).login /\ Req(1).email # Req(2).email
    /\ Status(1) = 201 /\ Status(2) = 400
    /\ Get(sess[2].out).detail # "Login already taken"

\* ----- deleting users that own posts, comments, favorites and follows

\* Two registered users and one category, as register and create_category
\* leave them.
UserRow(email, login) ==
    [email |-> email, login |-> login, password_hash |-> get_password_hash("pw-one-1"),
     full_name |-> NULL, is_active |-> TRUE, is_admin |-> FALSE, created_at |-> 0]
TwoUsers == <<UserRow("a@x.io", "ann"), UserRow("b@x.io", "bob")>>
OneCategory == <<[name |-> "news", slug |-> "news", description |-> NULL]>>

T_Hi == <<"H", "i">>
T_hi == <<"h", "i", "!">>
T_yo == <<"y", "o">>

CascadePostInputs ==
    [author_id : {1, 2}, title : {T_Hi, T_yo}, content : {"c1"}, summary : {NULL},
     is_published : {Some(TRUE)}, category_ids : {Some({1})}]
CascadeCommentInputs == [content : {"c"}, parent_id : {NULL, Some(1)}]

InitCascade ==
    /\ variant = "relational"
    /\ BaseState(TwoUsers, OneCategory)

NextCascade ==
    \/ \E data \in CascadePostInputs : crud_create_post(data)
    \/ \E p \in PostIds, u \in {1, 2}, data \in CascadeCommentInputs :
          route_create_comment(p, u, data)
    \/ \E p \in PostIds : crud_add_favorite(1, p)
    \/ crud_follow_user(1, 2)
    \/ \E u \in {1, 2} : crud_delete_user(u)

SpecCascade == InitCascade /\ [][NextCascade]_vars

\* what is left of user u in the next state
NoReferenceAfterDelete(u) ==
    LET ps == PostsOfUser(u)
        cs == {c \in DOMAIN comments :
                  comments[c].user_id = u \/ comments[c].post_id \in ps}
    IN  /\ \A p \in DOMAIN posts' : posts'[p].author_id # u
        /\ \A p \in ps : p \notin DOMAIN posts'
        /\ \A c \in cs : c \notin DOMAIN comments'
        /\ \A c \in DOMAIN comments' :
              /\ comments'[c].user_id # u
              /\ comments'[c].post_id \notin ps
              /\ IsSome(comments'[c].parent_id) => Get(comments'[c].parent_id) \notin cs
        /\ \A f \in DOMAIN favorites' : f[1] # u /\ f[2] \notin ps
        /\ \A f \in DOMAIN subscriptions' : f[1] # u /\ f[2] # u
        /\ \A pc \in post_categories' : pc[1] \notin ps

\* C3: a step that deletes user u leaves no post of u, no comment by u or on
\* a post of u, no favorite, follow or post-category row naming u or a post
\* of u; the deleted posts and comments are not found afterwards.
DeleteUserLeavesNoReference ==
    [][\A u \in UserIds :
          (u \in DOMAIN users /\ u \notin DOMAIN users') => NoReferenceAfterDelete(u)]_vars

\* A user was deleted, and posts and comments went with it while the other
\* user and a comment of theirs (a reply that lost its parent) remain.
DeleteUserWitness ==
    /\ last.op = "delete_user" /\ last.result = "True"
    /\ Cardinality(DOMAIN users) = 1
    /\ post_id_seq = 2 /\ Cardinality(DOMAIN posts) = 1
    /\ comment_id_seq = 2 /\ Cardinality(DOMAIN comments) = 1
    /\ \A c \in DOMAIN comments : c = 2 /\ comments[c].parent_id = NULL

\* ----- posts: create, update, delete, with the clock running

PostCreateInputs ==
    [author_id : {1}, title : {T_Hi, T_hi, T_yo}, content : {"c1"}, summary : {NULL},
     is_published : Opt(BOOLEAN), category_ids : {NULL}]
PostUpdateInputs ==
    [title : Opt({T_Hi, T_yo}), content : {NULL}, summary : {NULL},
     is_published : Opt(BOOLEAN), category_ids : {NULL}]

InitPosts ==
    /\ variant = "relational"
    /\ BaseState(TwoUsers, OneCategory)

NextPosts ==
    \/ Tick
    \/ \E data \in PostCreateInputs : crud_create_post(data)
    \/ \E p \in PostIds, data \in PostUpdateInputs : crud_update_post(p, data)
    \/ \E p \in PostIds : crud_delete_post(p)

SpecPosts == InitPosts /\ [][NextPosts]_vars

PublishedAt(tbl, p) == tbl[p].published_at

\* C4: published_at stays empty until a publishing step (a creation given
\* is_published true, or an update that sets is_published true while the
\* stamp is empty), gets the current time at that step, and is never changed
\* or cleared afterwards.
PublishedAtSetOnce ==
    [][/\ \A p \in DOMAIN posts \cap DOMAIN posts' :
             PublishedAt(posts, p) # NULL => PublishedAt(posts', p) = PublishedAt(posts, p)
       /\ \A data \in PostCreateInputs :
             (crud_create_post(data) /\ post_id_seq' # post_id_seq) =>
                 PublishedAt(posts', post_id_seq') =
                     IF data.is_published = Some(TRUE) THEN Some(now) ELSE NULL
       /\ \A p \in DOMAIN posts : \A data \in PostUpdateInputs :
             (crud_update_post(p, data) /\ PublishedAt(posts, p) = NULL) =>
                 PublishedAt(posts', p) =
                     IF data.is_published = Some(TRUE) THEN Some(now) ELSE NULL
      ]_vars

\* C26: in every state a published post of table posts has a published_at.
PublishedPostsAreStamped ==
    \A p \in DOMAIN posts : posts[p].is_published => PublishedAt(posts, p) # NULL

\* A post created unpublished, published by a later update, and updated
\* again after that: published, stamped after time 0, updated at a later time.
PublishedAtWitness ==
    \E p \in DOMAIN posts :
        /\ posts[p].is_published
        /\ PublishedAt(posts, p) # NULL
        /\ Get(PublishedAt(posts, p)) > 0
        /\ Get(PublishedAt(posts, p)) < now
        /\ posts[p].slug[2] = 0
        /\ last.op = "update_post" /\ last.result = "ok"

\* C9: no two stored posts have the same slug, and no step changes the slug
\* of a stored post.
SlugUniqueAndImmutable ==
    [][/\ Distinct(posts', "slug")
       /\ \A p \in DOMAIN posts \cap DOMAIN posts' : posts'[p].slug = posts[p].slug
      ]_vars

\* Two posts stored, one of them retitled so that its slug no longer is
\* the slug of its title.
SlugWitness ==
    /\ Cardinality(DOMAIN posts) = 2
    /\ \E p \in DOMAIN posts : posts[p].slug[1] # slugify(posts[p].title)
    /\ last.op = "update_post" /\ last.result = "ok"

\* C10: every create_post with a valid author succeeds (author 1 is stored
\* throughout, and every creation is by author 1).
CreatePostAlwaysSucceeds ==
    last.op = "create_post" => last.result = "ok"

\* ----- follow, unfollow and is_following from two concurrent sessions

InitFollow ==
    /\ variant = "relational"
    /\ BaseState(TwoUsers, <<>>)

NextFollow ==
    \/ \E s \in Sessions, a \in {1, 2}, b \in {1, 2} : follow_user_select(s, a, b)
    \/ \E s \in Sessions : follow_user_insert(s)
    \/ \E s \in Sessions, a \in {1, 2}, b \in {1, 2} : unfollow_user(s, a, b)
    \/ \E s \in Sessions, a \in {1, 2}, b \in {1, 2} : crud_is_following(s, a, b)

SpecFollow == InitFollow /\ [][NextFollow]_vars

Stored(table, pair) == CopiesIn(pair, table) > 0
Out(s) == Get(sess'[s].out)

\* C5: under every interleaving the table holds at most one row per pair and
\* no self-pair; follow_user returns False exactly for a pair stored when it
\* looks or a self-follow, and True exactly when it adds the row;
\* unfollow_user returns True exactly when it removed a row; is_following is
\* True exactly when the pair is stored.
FollowIsASet ==
    [][/\ \A pair \in DOMAIN subscriptions' :
             subscriptions'[pair] = 1 /\ pair[1] # pair[2]
       /\ \A s \in Sessions, a \in {1, 2}, b \in {1, 2} :
             follow_user_select(s, a, b) =>
                /\ UNCHANGED subscriptions
                /\ (Stored(subscriptions, <<a, b>>) \/ a = b)
                      <=> (sess'[s].pc = "done" /\ Out(s) = "False")
       /\ \A s \in Sessions :
             follow_user_insert(s) =>
                LET pair == Get(sess[s].data).pair
                IN  /\ Out(s) # "False"
                    /\ Out(s) = "True" <=>
                          (~Stored(subscriptions, pair) /\ Stored(subscriptions', pair))
                    /\ \A other \in (DOMAIN subscriptions \cup DOMAIN subscriptions') \ {pair} :
                          CopiesIn(other, subscriptions') = CopiesIn(other, subscriptions)
       /\ \A s \in Sessions, a \in {1, 2}, b \in {1, 2} :
             unfollow_user(s, a, b) =>
                /\ ~Stored(subscriptions', <<a, b>>)
                /\ Out(s) = "True" <=> Stored(subscriptions, <<a, b>>)
       /\ \A s \in Sessions, a \in {1, 2}, b \in {1, 2} :
             crud_is_following(s, a, b) =>
                (Out(s) = "True" <=> Stored(subscriptions, <<a, b>>))
      ]_vars

\* Both sessions asked to follow the same pair and both passed the lookup;
\* one row is stored.
FollowWitness ==
    /\ sess[1].pc = "done" /\ sess[2].pc = "done"
    /\ Get(sess[1].data) = Call("follow_user", 1, 2)
    /\ Get(sess[2].data) = Call("follow_user", 1, 2)
    /\ Get(sess[1].out) = "True"
    /\ Get(sess[2].out) = "IntegrityError"
    /\ CopiesIn(<<1, 2>>, subscriptions) = 1

\* ----- favorites of two users over posts that come and go

FavoritePostInputs ==
    [author_id : {1}, title : {T_Hi, T_yo}, content : {"c1"}, summary : {NULL},
     is_published : {Some(TRUE), Some(FALSE)}, category_ids : {NULL}]

InitFavorites ==
    /\ variant = "relational"
    /\ BaseState(TwoUsers, <<>>)

NextFavorites ==
    \/ \E data \in FavoritePostInputs : crud_create_post(data)
    \/ \E p \in PostIds : crud_delete_post(p)
    \/ \E u \in {1, 2}, p \in PostIds : crud_add_favorite(u, p)
    \/ \E u \in {1, 2}, p \in PostIds : crud_remove_favorite(u, p)
    \/ \E u \in {1, 2}, p \in PostIds : crud_is_favorited(u, p)
    \/ \E u \in {1, 2}, p \in PostIds : add_to_favorites(p, u)
    \/ \E u \in {1, 2}, p \in PostIds : remove_from_favorites(p, u)

SpecFavorites == InitFavorites /\ [][NextFavorites]_vars

\* C6: for users u and posts p that exist, add_favorite returns True and
\* stores (u, p) when it was absent, and returns False and changes nothing
\* when it was stored (the route: 201, and 400); remove_favorite returns
\* True exactly when the pair was stored and leaves it absent (the route:
\* 204, and 404 otherwise); is_favorited is True exactly when the pair is
\* stored, and a pair of an existing post is stored or dropped by no other
\* step than a successful add or remove; no pair has more than one row.
FavoritesAreASet ==
    [][/\ \A pair \in DOMAIN favorites' : favorites'[pair] = 1
       /\ \A u \in {1, 2}, p \in PostIds :
            LET pair == <<u, p>>
                was == Stored(favorites, pair)
                is == Stored(favorites', pair)
                others == favorites' = favorites
                            \/ /\ BagToSet(favorites') \ {pair} = BagToSet(favorites) \ {pair}
                               /\ \A f \in BagToSet(favorites) \ {pair} :
                                     favorites'[f] = favorites[f]
            IN  /\ (crud_add_favorite(u, p) /\ p \in DOMAIN posts) =>
                      /\ ~was => (last'.result = "True" /\ is /\ others)
                      /\ was => (last'.result = "False" /\ favorites' = favorites)
                /\ add_to_favorites(p, u) =>
                      /\ last'.result = 201 <=>
                            (p \in DOMAIN posts /\ posts[p].is_published /\ ~was)
                      /\ last'.result = 201 => (is /\ others)
                      /\ last'.result # 201 => favorites' = favorites
                      /\ last'.result = 400 <=>
                            (p \in DOMAIN posts /\ posts[p].is_published /\ was)
                /\ crud_remove_favorite(u, p) =>
                      /\ last'.result = "True" <=> was
                      /\ ~is /\ others
                /\ remove_from_favorites(p, u) =>
                      /\ last'.result = 204 <=> was
                      /\ last'.result = 404 <=> ~was
                      /\ ~is /\ others
                /\ crud_is_favorited(u, p) => (last'.result = "True" <=> was)
                /\ (p \in DOMAIN posts' /\ is # was) =>
                      \/ /\ crud_add_favorite(u, p) \/ add_to_favorites(p, u)
                         /\ is
                      \/ /\ crud_remove_favorite(u, p) \/ remove_from_favorites(p, u)
                         /\ ~is
      ]_vars

\* A second add of a stored pair has just answered False.
FavoritesWitness ==
    /\ last = [op |-> "add_favorite", result |-> "False"]
    /\ CopiesIn(<<2, 1>>, favorites) = 1
    /\ CopiesIn(<<1, 1>>, favorites) = 1

\* ----- pages of a listing that stays as it is

\* newest first: the item listed at position i is the one with id n - i + 1
Listings == {[i \in 1..n |-> n - i + 1] : n \in 0..MaxItems}
PageSizes == {0, 1, 2, 3, 7, DefaultPageSize, MaxItems, MaxPageSize, MaxPageSize + 1}
Pages == {0, 1, 2, 3, 4, 5, MaxItems, MaxItems + 1}

InitPage ==
    /\ variant \in {"prototype", "relational"}
    /\ s_users = <<>> /\ s_posts = <<>> /\ s_user_seq = 0 /\ s_post_seq = 0
    /\ users = <<>> /\ user_id_seq = 0
    /\ categories = <<>>
    /\ posts = <<>> /\ post_id_seq = 0 /\ post_categories = {}
    /\ comments = <<>> /\ comment_id_seq = 0
    /\ favorites = EmptyBag /\ subscriptions = EmptyBag
    /\ now = 0
    /\ sess = [s \in Sessions |-> IdleSession]
    /\ listing \in Listings
    /\ last = NoOp
    /\ data_file = NULL

NextPage ==
    \/ \E page \in Pages, page_size \in PageSizes : list_posts(page, page_size)
    \/ \E page \in Pages \ {0}, limit \in PageSizes \ {0} :
          Store_list_posts((page - 1) * limit, limit)

SpecPage == InitPage /\ [][NextPage]_vars

Positions(a, b) == [i \in 1..Max(0, b - a + 1) |-> listing[a + i - 1]]
Ceil(n, s) == (n + s - 1) \div s
PageItems(k, s) ==
    IF variant = "relational"
    THEN offset_limit(listing, get_pagination_params(k, s).skip,
                      get_pagination_params(k, s).limit)
    ELSE list_slice(listing, (k - 1) * s, s)
RECURSIVE PagesUpTo(_, _)
PagesUpTo(k, s) == IF k = 0 THEN <<>> ELSE PagesUpTo(k - 1, s) \o PageItems(k, s)

\* C7: page k of size s of an unchanged listing of N items is the items at
\* positions (k-1)*s+1 .. min(k*s, N); pages 1..ceil(N/s) put end to end are
\* the listing itself, every page before the last has s items and every page
\* after the last is empty.
PagesPartitionListing ==
    (last.op \in {"list_posts", "Store.list_posts"} /\ last.result.status = 200) =>
        LET N == Len(listing)
            s == last.result.page_size
            k == IF last.op = "list_posts" THEN last.result.page
                 ELSE (last.result.page \div s) + 1
            items == last.result.items
        IN  /\ items = Positions((k - 1) * s + 1, Min(k * s, N))
            /\ k < Ceil(N, s) => Len(items) = s
            /\ k > Ceil(N, s) => items = <<>>
            /\ PagesUpTo(Ceil(N, s), s) = listing
            /\ \A j \in 1..Ceil(N, s) : PageItems(j, s) # <<>>

\* 45 items in pages of 20: the third page has the last 5.
PagesWitness ==
    /\ last.op = "list_posts" /\ last.result.status = 200
    /\ Len(listing) = 45
    /\ last.result.page = 3 /\ last.result.page_size = DefaultPageSize
    /\ last.result.items = <<5, 4, 3, 2, 1>>

\* ----- partial updates of a user, a post and a category, in both variants

TwoCategories ==
    <<[name |-> "news", slug |-> "news", description |-> NULL],
      [name |-> "tech", slug |-> "tech", description |-> Some("d1")]>>

UpdateStorePostInputs == [authorId : {1}, title : {T_Hi}, content : {"c1"}]
UpdateStorePostUpdates ==
    [authorId : Opt({2, MaxUserId + 1}), title : Opt({T_yo}), content : Opt({"c2"})]
UpdatePostInputs ==
    [author_id : {1}, title : {T_Hi}, content : {"c1"}, summary : {Some("s1")},
     is_published : {Some(FALSE)}, category_ids : {Some({1})}]
UpdatePostUpdates ==
    [title : Opt({T_yo}), content : Opt({"c2"}), summary : Opt({"s2"}),
     is_published : Opt({TRUE}), category_ids : Opt({{2}})]
UpdateUserUpdates ==
    [email : Opt({"b@x.io", "c@x.io"}), login : {NULL},
     password : Opt({"pw-two-2"}), full_name : Opt({"Ann A"})]
UpdateCategoryUpdates ==
    [name : Opt({"tech", "life"}), slug : {NULL}, description : Opt({"d2"})]

InitUpdate ==
    /\ variant \in {"prototype", "relational"}
    /\ BaseState(TwoUsers, TwoCategories)

NextUpdate ==
    \/ \E data \in StoreUserCreateInputs : Store_create_user(data)
    \/ \E data \in UpdateStorePostInputs : s_post_seq = 0 /\ Store_create_post(data)
    \/ \E id \in {1, 2}, data \in StoreUserUpdateInputs : Store_update_user(id, data)
    \/ \E id \in {1}, data \in UpdateStorePostUpdates : Store_update_post(id, data)
    \/ \E data \in UpdatePostInputs : crud_create_post(data)
    \/ \E id \in {1, MaxUserId + 1}, data \in UpdateUserUpdates : crud_update_user(id, data)
    \/ \E id \in {1}, data \in UpdatePostUpdates : crud_update_post(id, data)
    \/ \E id \in {1, 3}, data \in UpdateCategoryUpdates : crud_update_category(id, data)

SpecUpdate == InitUpdate /\ [][NextUpdate]_vars

\* the fields of a request that are absent keep their value in the row
Kept(old, new, data, fields) == \A f \in fields : data[f] = NULL => new[f] = old[f]
\* nothing but row id of the table changes
OnlyRow(old, new, id) ==
    /\ DOMAIN new = DOMAIN old
    /\ \A i \in DOMAIN old \ {id} : new[i] = old[i]

\* C8: an update of a user, post or category leaves every other row as it
\* was and, in the updated row, every field that the request does not give:
\* the prototype's email, login, authorId, title, content; the user's email,
\* login, full name, credential and flags; the category's name, slug and
\* description; the post's title, content, summary, publish flag and category
\* set, its author, slug and view count always, and its published_at unless
\* the request publishes a post that has no stamp yet.
UpdateKeepsAbsentFields ==
    [][/\ \A id \in {1, 2}, data \in StoreUserUpdateInputs :
             (last'.op = "Store.update_user" /\ Store_update_user(id, data)) =>
                /\ OnlyRow(s_users, s_users', id)
                /\ id \in DOMAIN s_users =>
                      /\ Kept(s_users[id], s_users'[id], data, {"email", "login"})
                      /\ s_users'[id].id = id
                /\ UNCHANGED <<s_posts, db_vars>>
       /\ \A id \in {1}, data \in UpdateStorePostUpdates :
             (last'.op = "Store.update_post" /\ Store_update_post(id, data)) =>
                /\ OnlyRow(s_posts, s_posts', id)
                /\ id \in DOMAIN s_posts =>
                      /\ Kept(s_posts[id], s_posts'[id], data,
                              {"authorId", "title", "content"})
                      /\ s_posts'[id].id = id
                /\ UNCHANGED <<s_users, db_vars>>
       /\ \A id \in {1, MaxUserId + 1}, data \in UpdateUserUpdates :
             (last'.op = "update_user" /\ crud_update_user(id, data)) =>
                /\ OnlyRow(users, users', id)
                /\ id \in DOMAIN users =>
                      /\ Kept(users[id], users'[id], data, {"email", "login", "full_name"})
                      /\ data.password = NULL =>
                            users'[id].password_hash = users[id].password_hash
                      /\ users'[id].is_active = users[id].is_active
                      /\ users'[id].is_admin = users[id].is_admin
                /\ UNCHANGED <<store_vars, categories, post_vars, comment_vars, social_vars>>
       /\ \A id \in {1, 3}, data \in UpdateCategoryUpdates :
             (last'.op = "update_category" /\ crud_update_category(id, data)) =>
                /\ OnlyRow(categories, categories', id)
                /\ id \in DOMAIN categories =>
                      Kept(categories[id], categories'[id], data,
                           {"name", "slug", "description"})
                /\ UNCHANGED <<store_vars, user_vars, post_vars, comment_vars, social_vars>>
       /\ \A id \in {1}, data \in UpdatePostUpdates :
             (last'.op = "update_post" /\ crud_update_post(id, data)) =>
                /\ OnlyRow(posts, posts', id)
                /\ id \in DOMAIN posts =>
                      /\ Kept(posts[id], posts'[id], data,
                              {"title", "content", "summary", "is_published"})
                      /\ posts'[id].author_id = posts[id].author_id
                      /\ posts'[id].slug = posts[id].slug
                      /\ posts'[id].view_count = posts[id].view_count
                      /\ posts'[id].published_at # posts[id].published_at =>
                            /\ data.is_published = Some(TRUE)
                            /\ posts[id].published_at = NULL
                      /\ data.category_ids = NULL => post_categories' = post_categories
                /\ \A pc \in post_categories \cup post_categories' :
                      pc[1] # id => (pc \in post_categories <=> pc \in post_categories')
                /\ UNCHANGED <<store_vars, user_vars, categories, comment_vars, social_vars>>
      ]_vars

\* Post 1 after an update that gave only a title: the new title, and the
\* content, summary, author, publish flag and category it was created with.
UpdateWitness ==
    /\ last = [op |-> "update_post", result |-> "ok"]
    /\ 1 \in DOMAIN posts
    /\ posts[1].title = T_yo
    /\ posts[1].content = "c1" /\ posts[1].summary = Some("s1")
    /\ posts[1].author_id = 1 /\ ~posts[1].is_published
    /\ posts[1].published_at = NULL
    /\ CategoriesOf(1) = {1}

\* ----- listing posts by author, category, visibility and search text

T_no == <<"n", "o">>
T_oh == <<"o", "h">>

ListPostInputs ==
    {[author_id |-> 1, title |-> T_Hi, content |-> T_no, summary |-> NULL,
      is_published |-> Some(TRUE), category_ids |-> Some({1})],
     [author_id |-> 1, title |-> T_yo, content |-> T_no, summary |-> Some(T_oh),
      is_published |-> Some(FALSE), category_ids |-> Some({1, 2})],
     [author_id |-> 2, title |-> T_no, content |-> T_Hi, summary |-> Some(T_yo),
      is_published |-> Some(TRUE), category_ids |-> NULL],
     [author_id |-> 2, title |-> T_yo, content |-> T_oh, summary |-> NULL,
      is_published |-> NULL, category_ids |-> Some({2})],
     [author_id |-> 1, title |-> T_oh, content |-> T_yo, summary |-> NULL,
      is_published |-> Some(FALSE), category_ids |-> NULL]}
ListSearches == {NULL, Some(<<>>), Some(<<"H">>), Some(<<"y","o">>)}

InitList ==
    /\ variant = "relational"
    /\ BaseState(TwoUsers, TwoCategories)

NextList ==
    \/ \E data \in ListPostInputs : crud_create_post(data)
    \/ \E p \in PostIds : crud_delete_post(p)
    \/ \E a \in Opt({1, 2}), c \in Opt({1, 2}), v \in Opt(BOOLEAN), q \in ListSearches :
          crud_get_posts(a, c, v, q)

SpecList == InitList /\ [][NextList]_vars

\* text contains s, letter case aside
ContainsText(text, s) ==
    \E i \in 0..(Len(text) - Len(s)) :
        lower_text(SubSeq(text, i + 1, i + Len(s))) = lower_text(s)

SearchUser(login, email, full_name, is_active) ==
    [login |-> login, email |-> email, full_name |-> full_name,
     password |-> "pw-one-1", is_active |-> is_active]

SearchUserInputs ==
    {SearchUser(<<"j", "o">>, <<"j", "o", "@">>, Some(<<"J", "o", "h">>), TRUE),
     SearchUser(<<"n", "i">>, <<"n", "i", "@">>, Some(<<"i", "J", "o">>), TRUE),
     SearchUser(<<"h", "y">>, <<"h", "y", "@">>, Some(<<"J", "i", "n">>), FALSE),
     SearchUser(<<"o", "n">>, <<"o", "n", "@">>, NULL, TRUE)}
UserSearches == {NULL, Some(<<"j", "o">>), Some(<<"J">>), Some(<<"j", "_">>)}

InitUserSearch ==
    /\ variant = "relational"
    /\ EmptyState

NextUserSearch ==
    \/ Tick
    \/ \E data \in SearchUserInputs : crud_create_user(data)
    \/ \E q \in UserSearches, act \in Opt(BOOLEAN) : crud_get_users(q, act)

SpecUserSearch == InitUserSearch /\ [][NextUserSearch]_vars

Range(f) == {f[i] : i \in DOMAIN f}

\* C12: get_users returns exactly the users whose login, email or full name
\* contains the search text, letter case aside, and whose is_active is the
\* value asked for when one is given, the newer before the older.
GetUsersReturnsSubstringMatches ==
    [][\A q \in UserSearches, act \in Opt(BOOLEAN) :
          (last'.op = "get_users" /\ crud_get_users(q, act)) =>
             /\ Range(last'.result) =
                   {u \in DOMAIN users :
                       /\ q # NULL =>
                             \/ ContainsText(users[u].login, Get(q))
                             \/ ContainsText(users[u].email, Get(q))
                             \/ users[u].full_name # NULL
                                /\ ContainsText(Get(users[u].full_name), Get(q))
                       /\ act # NULL => users[u].is_active = Get(act)}
             /\ \A i, j \in DOMAIN last'.result :
                   i < j => users[last'.result[i]].created_at
                               >= users[last'.result[j]].created_at
      ]_vars

\* ----- comments and replies on posts that are published, hidden and deleted

CommentPostInputs ==
    [author_id : {1}, title : {T_Hi, T_yo}, content : {"c1"}, summary : {NULL},
     is_published : {Some(TRUE), Some(FALSE)}, category_ids : {NULL}]
CommentPostUpdates ==
    [title : {NULL}, content : {NULL}, summary : {NULL},
     is_published : {Some(TRUE), Some(FALSE)}, category_ids : {NULL}]
CommentInputs == [content : {"c"}, parent_id : Opt(CommentIds)]

InitComments ==
    /\ variant = "relational"
    /\ BaseState(TwoUsers, OneCategory)

NextComments ==
    \/ \E data \in CommentPostInputs : crud_create_post(data)
    \/ \E p \in PostIds, data \in CommentPostUpdates : crud_update_post(p, data)
    \/ \E p \in PostIds : crud_delete_post(p)
    \/ \E p \in PostIds, u \in {1, 2}, data \in CommentInputs :
          route_create_comment(p, u, data)
    \/ \E c \in CommentIds : crud_delete_comment(c)

SpecComments == InitComments /\ [][NextComments]_vars

\* C13: a create-comment request on a missing post ends in 404 and on an
\* unpublished post in 403, and adds no row in either case; a row is added
\* only for a post that exists and is published when the request runs; every
\* stored comment names a stored post.
CommentOnlyOnPublishedPost ==
    [][/\ \A c \in DOMAIN comments' : comments'[c].post_id \in DOMAIN posts'
       /\ \A p \in PostIds, u \in {1, 2}, data \in CommentInputs :
             (last'.op = "create_comment" /\ route_create_comment(p, u, data)) =>
                /\ p \notin DOMAIN posts => (last'.result = "404" /\ comments' = comments)
                /\ (p \in DOMAIN posts /\ ~posts[p].is_published) =>
                      (last'.result = "403" /\ comments' = comments)
                /\ comments' # comments =>
                      /\ p \in DOMAIN posts /\ posts[p].is_published
                      /\ last'.result = "201"
                      /\ DOMAIN comments' = DOMAIN comments \cup {comment_id_seq'}
                      /\ comments'[comment_id_seq'].post_id = p
                      /\ \A c \in DOMAIN comments : comments'[c] = comments[c]
      ]_vars

\* A request on an unpublished post that already has a comment (made while it
\* was published) was refused.
CommentWitness ==
    /\ last = [op |-> "create_comment", result |-> "403"]
    /\ \E c \in DOMAIN comments : ~posts[comments[c].post_id].is_published

\* the comments that answer c, directly or through other replies
RECURSIVE RepliesWithin(_, _)
RepliesWithin(cs, n) ==
    IF n = 0 THEN cs
    ELSE RepliesWithin(cs \cup {r \in DOMAIN comments :
                                   /\ IsSome(comments[r].parent_id)
                                   /\ Get(comments[r].parent_id) \in cs}, n - 1)
RepliesOf(c) == RepliesWithin({c}, Cardinality(DOMAIN comments)) \ {c}

\* C14: once delete_comment(c) has returned True, no comment that was a reply
\* to c, directly or through a chain of replies, is stored.
DeleteCommentRemovesReplies ==
    [][\A c \in CommentIds :
          (last'.op = "delete_comment" /\ last'.result = "True" /\ crud_delete_comment(c)) =>
             \A r \in RepliesOf(c) : r \notin DOMAIN comments'
      ]_vars

\* ----- owners, other users and an admin changing posts and comments

AdminRow == [UserRow("b@x.io", "bob") EXCEPT !.is_admin = TRUE]
UsersAndAdmin == <<UserRow("a@x.io", "ann"), UserRow("c@x.io", "cat"), AdminRow>>

OwnerPostInputs ==
    [author_id : {1, 2}, title : {T_Hi, T_yo}, content : {"c1"}, summary : {NULL},
     is_published : {Some(TRUE)}, category_ids : {NULL}]
OwnerPostUpdates ==
    [title : {NULL}, content : {Some("c2")}, summary : {NULL},
     is_published : {NULL}, category_ids : {NULL}]
OwnerCommentInputs == [content : {"c"}, parent_id : {NULL}]
OwnerCommentUpdates == [content : {"e"}]

InitOwner ==
    /\ variant = "relational"
    /\ BaseState(UsersAndAdmin, <<>>)

NextOwner ==
    \/ \E data \in OwnerPostInputs : crud_create_post(data)
    \/ \E p \in PostIds, u \in {1, 2}, data \in OwnerCommentInputs :
          route_create_comment(p, u, data)
    \/ \E p \in PostIds, u \in {1, 2, 3}, data \in OwnerPostUpdates :
          route_update_post(p, u, data)
    \/ \E p \in PostIds, u \in {1, 2, 3} : route_delete_post(p, u)
    \/ \E c \in CommentIds, u \in {1, 2, 3}, data \in OwnerCommentUpdates :
          route_update_comment(c, u, data)
    \/ \E c \in CommentIds, u \in {1, 2, 3} : route_delete_comment(c, u)

SpecOwner == InitOwner /\ [][NextOwner]_vars

\* what an owner-only request on a resource must answer: 404 when the
\* resource is not stored, 403 when current_user is neither owner nor admin
Outcome(exists, owner, current_user, applied) ==
    IF ~exists THEN "404"
    ELSE IF owner # current_user /\ ~users[current_user].is_admin THEN "403"
    ELSE applied
OwnerOf(table, id, field) == IF id \in DOMAIN table THEN table[id][field] ELSE 0

\* C15: update and delete of a post or comment answer 404 when it is not
\* stored, whoever asks; 403, changing nothing, when it is stored and the
\* caller is neither its owner nor an admin; and are applied (200, 204) when
\* the caller is the owner or an admin. No request is answered 401.
OwnerOrAdminOnly ==
    [][/\ last'.result # "401"
       /\ \A p \in PostIds, u \in {1, 2, 3} :
            LET expect(applied) ==
                   Outcome(p \in DOMAIN posts, OwnerOf(posts, p, "author_id"), u, applied)
            IN  /\ \A data \in OwnerPostUpdates :
                      (last'.op = "PUT /posts" /\ route_update_post(p, u, data)) =>
                         /\ last'.result = expect("200")
                         /\ last'.result # "200" => UNCHANGED db_vars
                         /\ last'.result = "200" => posts'[p].content = Get(data.content)
                /\ (last'.op = "DELETE /posts" /\ route_delete_post(p, u)) =>
                      /\ last'.result = expect("204")
                      /\ last'.result # "204" => UNCHANGED db_vars
                      /\ last'.result = "204" => p \notin DOMAIN posts'
       /\ \A c \in CommentIds, u \in {1, 2, 3} :
            LET expect(applied) ==
                   Outcome(c \in DOMAIN comments, OwnerOf(comments, c, "user_id"), u, applied)
            IN  /\ \A data \in OwnerCommentUpdates :
                      (last'.op = "PUT /comments" /\ route_update_comment(c, u, data)) =>
                         /\ last'.result = expect("200")
                         /\ last'.result # "200" => UNCHANGED db_vars
                         /\ last'.result = "200" =>
                               comments'[c].content = data.content /\ comments'[c].is_edited
                /\ (last'.op = "DELETE /comments" /\ route_delete_comment(c, u)) =>
                      /\ last'.result = expect("204")
                      /\ last'.result # "204" => UNCHANGED db_vars
                      /\ last'.result = "204" => c \notin DOMAIN comments'
      ]_vars

\* A post of user 1 with a comment by user 2 edited (by user 2 or the admin);
\* the last request, a delete of the post, was refused with 403.
OwnerWitness ==
    /\ last = [op |-> "DELETE /posts", result |-> "403"]
    /\ \E p \in DOMAIN posts, c \in DOMAIN comments :
          /\ posts[p].author_id = 1
          /\ comments[c].post_id = p /\ comments[c].user_id = 2 /\ comments[c].is_edited

\* ----- writes that collide on a unique column

\* C16: no writing operation ends in the storage exception: a write that
\* violates a uniqueness constraint is answered with a domain error.
NoUnhandledIntegrityError == last.result # "IntegrityError"

\* C17: a create_user that fails because the email alone is taken raises
\* 'Email already registered', and one that fails because the login alone is
\* taken raises 'Login already taken'.
CreateUserNamesCollidingField ==
    [][\A data \in UserCreateInputs :
          (last'.op = "create_user" /\ last'.result # "ok" /\ crud_create_user(data)) =>
             LET email_taken == \E u \in DOMAIN users : users[u].email = data.email
                 login_taken == \E u \in DOMAIN users : users[u].login = data.login
             IN  /\ (email_taken /\ ~login_taken) =>
                       last'.result = "ValueError: Email already registered"
                 /\ (login_taken /\ ~email_taken) =>
                       last'.result = "ValueError: Login already taken"
      ]_vars

\* ----- views of posts read by two concurrent requests

ViewPostInputs ==
    [author_id : {1}, title : {T_Hi}, content : {"c1"}, summary : {NULL},
     is_published : {Some(TRUE), Some(FALSE)}, category_ids : {NULL}]
ViewPostUpdates ==
    [title : Opt({T_yo}), content : {NULL}, summary : {NULL},
     is_published : Opt({TRUE}), category_ids : {NULL}]
ViewCommentInputs == [content : {"c"}, parent_id : {NULL}]

InitViews ==
    /\ variant = "relational"
    /\ BaseState(TwoUsers, <<>>)

NextViews ==
    \/ \E data \in ViewPostInputs : crud_create_post(data)
    \/ \E s \in Sessions, u \in Opt({1, 2}) : route_get_post(s, 1, u)
    \/ \E s \in Sessions : increment_post_views(s)
    \/ \E data \in ViewPostUpdates : crud_update_post(1, data)
    \/ \E data \in ViewCommentInputs : route_create_comment(1, 2, data)
    \/ crud_add_favorite(2, 1)

SpecViews == InitViews /\ [][NextViews]_vars

ViewCount(table, p) == IF p \in DOMAIN table THEN table[p].view_count ELSE 0

\* C18: the view count of a post changes only by +1, in the step that runs
\* the background increment of one successful read of that post; every
\* successful read has exactly one such step, whatever other requests do in
\* between; a read answered 404 or 403 has none, and no other operation
\* changes the count.
ViewCountCountsReads ==
    [][/\ \A p \in PostIds :
            /\ ViewCount(posts', p) >= ViewCount(posts, p)
            /\ ViewCount(posts', p) # ViewCount(posts, p) =>
                  /\ ViewCount(posts', p) = ViewCount(posts, p) + 1
                  /\ \E s \in Sessions :
                        /\ increment_post_views(s)
                        /\ Get(sess[s].data).post_id = p
                        /\ Get(sess[s].out) = "200"
       /\ \A s \in Sessions :
            /\ increment_post_views(s) =>
                  LET p == Get(sess[s].data).post_id
                  IN  /\ Get(sess[s].out) = "200"
                      /\ p \in DOMAIN posts => ViewCount(posts', p) = ViewCount(posts, p) + 1
                      /\ sess'[s].pc = "done"
            /\ \A u \in Opt({1, 2}) :
                  route_get_post(s, 1, u) =>
                     /\ posts' = posts
                     /\ sess'[s].pc = "increment_post_views" <=> Get(sess'[s].out) = "200"
                     /\ Get(sess'[s].out) = "200" <=>
                           /\ 1 \in DOMAIN posts
                           /\ \/ posts[1].is_published
                              \/ u # NULL /\ (posts[1].author_id = Get(u)
                                              \/ users[Get(u)].is_admin)
      ]_vars

\* Both requests read post 1 before either increment ran, and both
\* increments have run: two views counted.
ViewsWitness ==
    /\ 1 \in DOMAIN posts /\ posts[1].view_count = 2
    /\ \A s \in Sessions :
          /\ sess[s].pc = "done"
          /\ Get(sess[s].data) = Reading(1, 0)
          /\ Get(sess[s].out) = "200"

\* ----- logging in with the names and passwords of users, and with others

LoginUserInputs ==
    [email : Emails, login : Logins, password : {"pw-one-1", "pw-two-2"},
     full_name : {NULL}, is_active : BOOLEAN]
Usernames == Emails \cup Logins \cup {"zed"}
LoginPasswords == {"pw-one-1", "pw-two-2", "wrong-pw"}

InitLogin ==
    /\ variant = "relational"
    /\ EmptyState

NextLogin ==
    \/ \E data \in LoginUserInputs : crud_create_user(data)
    \/ \E username \in Usernames, password \in LoginPasswords : route_login(username, password)

SpecLogin == InitLogin /\ [][NextLogin]_vars

Known(username) ==
    \E u \in DOMAIN users : users[u].email = username \/ users[u].login = username
PasswordOf(username, password) ==
    \E u \in DOMAIN users :
        /\ users[u].email = username \/ users[u].login = username
        /\ users[u].password_hash = get_password_hash(password)

\* C19: a login with a name no user has and a login with the name of a user
\* and a wrong password get one and the same response, 401 'Incorrect
\* username or password' without a token; a token is issued only to the name
\* and password of a stored user.
LoginHidesAccountExistence ==
    [][\A username \in Usernames, password \in LoginPasswords :
          (last'.op = "login" /\ route_login(username, password)) =>
             /\ (~Known(username) \/ ~PasswordOf(username, password)) =>
                   last'.result = LoginResponse(401, "Incorrect username or password", NULL)
             /\ last'.result.token # NULL =>
                   /\ PasswordOf(username, password)
                   /\ last'.result.status = 200
      ]_vars

\* Two users stored, and a login was just refused with 401.
LoginWitness ==
    /\ Cardinality(DOMAIN users) = 2
    /\ last.op = "login"
    /\ last.result.status = 401

\* ----- the category set of a post under update_post

CategoryPostInputs ==
    [author_id : {1}, title : {T_Hi, T_yo}, content : {"c1"}, summary : {NULL},
     is_published : {Some(FALSE)}, category_ids : {NULL, Some({1}), Some({1, 2})}]
\* category 3 does not exist
CategoryPostUpdates ==
    [title : {NULL}, content : Opt({"c2"}), summary : {NULL}, is_published : Opt({TRUE}),
     category_ids : Opt({{}, {1}, {2}, {1, 2}, {3}, {2, 3}})]

InitCategories ==
    /\ variant = "relational"
    /\ BaseState(TwoUsers, TwoCategories)

NextCategories ==
    \/ \E data \in CategoryPostInputs : crud_create_post(data)
    \/ \E p \in PostIds, data \in CategoryPostUpdates : crud_update_post(p, data)
    \/ \E p \in PostIds : crud_delete_post(p)

SpecCategories == InitCategories /\ [][NextCategories]_vars

CategoriesIn(table, post_id) == {pc[2] : pc \in {x \in table : x[1] = post_id}}

\* C20: an update of a stored post that supplies category_ids leaves the post
\* with exactly the existing categories among the supplied ids, the empty
\* list included (no categories); an update without category_ids leaves the
\* category set as it was.
UpdatePostReplacesCategories ==
    [][\A p \in PostIds, data \in CategoryPostUpdates :
          (last'.op = "update_post" /\ p \in DOMAIN posts /\ crud_update_post(p, data)) =>
             CategoriesIn(post_categories', p) =
                IF data.category_ids = NULL
                THEN CategoriesIn(post_categories, p)
                ELSE ExistingCategories(Get(data.category_ids))
      ]_vars

\* ----- POST /users/{user_id}/follow

HttpResult(status, detail) == [status |-> status, detail |-> detail]

\* the route without its own test of user_id == current_user.id
route_follow_user_no_self_test(s, user_id, current_user) ==
    /\ variant = "relational"
    /\ Ready(s)
    /\ current_user \in DOMAIN users
    /\ LET call == Call("POST /users/follow", current_user, user_id)
       IN  IF get_user(user_id) = NULL
           THEN Returns(s, call, HttpResult(404, "User not found"))
           ELSE IF is_following(current_user, user_id) \/ current_user = user_id
           THEN Returns(s, call, HttpResult(400, "Already following this user"))
           ELSE sess' = [sess EXCEPT ![s] =
                    [pc |-> "route_follow_insert", data |-> Some(call), out |-> NULL]]
    /\ UNCHANGED <<variant, data_file, store_vars, db_vars, now, listing, last>>

\* routes.follow_user up to the select of crud.follow_user: 404 for a missing
\* user, 400 for oneself, then crud.follow_user's lookup, whose False (a
\* stored pair; the self-pair never gets this far) becomes the second 400.
route_follow_user(s, user_id, current_user) ==
    /\ variant = "relational"
    /\ Ready(s)
    /\ current_user \in DOMAIN users
    /\ LET call == Call("POST /users/follow", current_user, user_id)
       IN  IF get_user(user_id) = NULL
           THEN Returns(s, call, HttpResult(404, "User not found"))
           ELSE IF user_id = current_user
           THEN Returns(s, call, HttpResult(400, "Cannot follow yourself"))
           ELSE IF is_following(current_user, user_id) \/ current_user = user_id
           THEN Returns(s, call, HttpResult(400, "Already following this user"))
           ELSE sess' = [sess EXCEPT ![s] =
                    [pc |-> "route_follow_insert", data |-> Some(call), out |-> NULL]]
    /\ UNCHANGED <<variant, data_file, store_vars, db_vars, now, listing, last>>

\* the insert and the commit of crud.follow_user, and the route's answer; an
\* IntegrityError is caught nowhere and leaves the route as a server error
route_follow_user_insert(s) ==
    /\ variant = "relational"
    /\ sess[s].pc = "route_follow_insert"
    /\ LET call == Get(sess[s].data)
       IN  IF SubscriptionInsertRejected(call.pair[1], call.pair[2])
           THEN /\ Returns(s, call, HttpResult(500, "Internal Server Error"))
                /\ UNCHANGED subscriptions
           ELSE /\ subscriptions' = InsertRow(subscriptions, call.pair)
                /\ Returns(s, call, HttpResult(201, "User followed successfully"))
    /\ UNCHANGED <<variant, data_file, store_vars, user_vars, categories, post_vars,
                   comment_vars, favorites, now, listing, last>>

FollowCallers == {1, 2}

InitFollowRoute ==
    /\ variant = "relational"
    /\ BaseState(TwoUsers, <<>>)

NextFollowRoute ==
    \/ \E s \in Sessions, u \in UserIds, cu \in FollowCallers : route_follow_user(s, u, cu)
    \/ \E s \in Sessions : route_follow_user_insert(s)
    \/ \E s \in Sessions, a \in FollowCallers, b \in FollowCallers : unfollow_user(s, a, b)

SpecFollowRoute == InitFollowRoute /\ [][NextFollowRoute]_vars

RECURSIVE newest_first(_)
newest_first(ids) ==
    IF ids = {} THEN <<>>
    ELSE LET newest == CHOOSE i \in ids : \A j \in ids : j <= i
         IN  <<newest>> \o newest_first(ids \ {newest})

\* crud.get_following: the users at the other end of the caller's rows
get_following(user_id) ==
    {u \in DOMAIN users : is_following(user_id, u)}

FeedResponse(status, items) == [status |-> status, items |-> items]

\* routes.get_feed: the page of the published listing, then the filter on the
\* authors
get_feed(page, page_size, current_user) ==
    /\ variant = "relational"
    /\ current_user \in DOMAIN users
    /\ IF page < MinPage \/ page_size < MinPageSize \/ page_size > MaxPageSize
       THEN Returned("GET /me/feed", FeedResponse(422, <<>>))
       ELSE LET pagination == get_pagination_params(page, page_size)
                following_ids == get_following(current_user)
                published == newest_first({p \in DOMAIN posts :
                                 get_posts_filter(p, NULL, NULL, Some(TRUE), NULL)})
                page_posts == offset_limit(published, pagination.skip, pagination.limit)
            IN  IF following_ids = {}
                THEN Returned("GET /me/feed", FeedResponse(200, <<>>))
                ELSE Returned("GET /me/feed", FeedResponse(200,
                        SelectSeq(page_posts,
                                  LAMBDA p : posts[p].author_id \in following_ids)))
    /\ UNCHANGED <<variant, data_file, store_vars, db_vars, now, sess, listing>>

FeedUsers == TwoUsers \o <<UserRow("c@x.io", "cat")>>
FeedPostInputs ==
    [author_id : {2, 3}, title : {T_Hi, T_yo}, content : {"c1"}, summary : {NULL},
     is_published : {Some(TRUE), Some(FALSE)}, category_ids : {NULL}]
FeedPostUpdates ==
    [title : {NULL}, content : {NULL}, summary : {NULL},
     is_published : {Some(TRUE), Some(FALSE)}, category_ids : {NULL}]
FeedPages == {0, 1, 2, 3}
FeedPageSizes == {1, 2}

InitFeed ==
    /\ variant = "relational"
    /\ BaseState(FeedUsers, <<>>)

NextFeed ==
    \/ \E data \in FeedPostInputs : crud_create_post(data)
    \/ \E p \in PostIds, data \in FeedPostUpdates : crud_update_post(p, data)
    \/ \E b \in {1, 2, 3} : crud_follow_user(1, b)
    \/ \E b \in {2, 3} : unfollow_user(1, 1, b)
    \/ \E page \in FeedPages, page_size \in FeedPageSizes : get_feed(page, page_size, 1)

SpecFeed == InitFeed /\ [][NextFeed]_vars

\* the newest-first list of the published posts of the authors a user follows
FeedOf(user_id) ==
    newest_first({p \in DOMAIN posts :
                     /\ posts[p].is_published
                     /\ is_following(user_id, posts[p].author_id)})

\* C22: page k of size s of a user's feed is the items at positions
\* (k-1)*s+1 .. k*s of the newest-first list of the published posts of the
\* authors the user follows; the feed of a user who follows nobody is empty.
FeedPagesPartitionFeed ==
    [][\A page \in FeedPages \ {0}, page_size \in FeedPageSizes :
          (last'.op = "GET /me/feed" /\ get_feed(page, page_size, 1)) =>
             /\ last'.result.status = 200
             /\ last'.result.items =
                   offset_limit(FeedOf(1), (page - 1) * page_size, page_size)
             /\ get_following(1) = {} => last'.result.items = <<>>
      ]_vars

\* ----- the prototype's store and its file

PersistUserInputs == [email : Emails, login : {"ann", "bob"}]
PersistUserUpdates == [email : Opt({"b@x.io"}), login : {NULL}]
PersistPostInputs == [authorId : {1, 2}, title : {T_Hi}, content : {"c1"}]
PersistPostUpdates == [authorId : Opt({2}), title : Opt({T_yo}), content : {NULL}]

InitPersist ==
    /\ variant = "prototype"
    /\ EmptyState

NextPersist ==
    \/ \E data \in PersistUserInputs : Store_create_user(data)
    \/ \E id \in {1, 2}, data \in PersistUserUpdates : Store_update_user(id, data)
    \/ \E id \in {1, 2} : Store_delete_user(id)
    \/ \E data \in PersistPostInputs : Store_create_post(data)
    \/ \E id \in {1}, data \in PersistPostUpdates : Store_update_post(id, data)
    \/ \E id \in {1} : Store_delete_post(id)
    \/ Store_save_to_json
    \/ Store_load_from_json

SpecPersist == InitPersist /\ [][NextPersist]_vars

\* C23: save_to_json writes a payload from which load_from_json makes the
\* very users, posts and counters of the store; a load_from_json right after
\* a save_to_json leaves the four unchanged; a load_from_json without a data
\* file leaves the four unchanged.
SaveThenLoadRestores ==
    [][/\ (last'.op = "Store.save_to_json" /\ Store_save_to_json) =>
             /\ UNCHANGED store_vars
             /\ loaded(Get(data_file')) = store_vars
       /\ (last'.op = "Store.load_from_json" /\ Store_load_from_json) =>
             /\ last.op = "Store.save_to_json" => UNCHANGED store_vars
             /\ data_file = NULL => UNCHANGED store_vars
             /\ data_file # NULL => store_vars' = loaded(Get(data_file))
      ]_vars

\* A store whose first user and first post were deleted was saved and has
\* been loaded back from the file: the counters are ahead of the entries.
SaveLoadWitness ==
    /\ last.op = "Store.load_from_json"
    /\ data_file # NULL
    /\ DOMAIN s_users = {2} /\ s_user_seq = 2
    /\ DOMAIN s_posts = {2} /\ s_post_seq = 2
    /\ loaded(Get(data_file)) = store_vars

\* ----- operations that end in a domain error

RollbackUserInputs ==
    [email : Emails, login : Logins, password : {"pw-one-1"}, full_name : {NULL}]
RollbackUserUpdates ==
    [email : Opt(Emails), login : Opt(Logins), password : Opt({"pw-two-2"}),
     full_name : {NULL}]
RollbackCategoryInputs ==
    [name : {"news", "tech"}, slug : {"news", "tech"}, description : {NULL}]
RollbackStorePostInputs == [authorId : {1, 2}, title : {T_Hi}, content : {"c1"}]
RollbackStorePostUpdates ==
    [authorId : Opt({1, 2, MaxUserId + 1}), title : Opt({T_yo}), content : {NULL}]

InitRollback ==
    /\ variant \in {"prototype", "relational"}
    /\ EmptyState

NextRollback ==
    \/ \E data \in StoreUserCreateInputs : Store_create_user(data)
    \/ \E id \in {1, 2}, data \in StoreUserUpdateInputs : Store_update_user(id, data)
    \/ \E id \in {1, 2} : Store_delete_user(id)
    \/ \E data \in RollbackStorePostInputs : Store_create_post(data)
    \/ \E id \in {1, 2}, data \in RollbackStorePostUpdates : Store_update_post(id, data)
    \/ \E id \in {1, 2} : Store_delete_post(id)
    \/ \E data \in RollbackUserInputs : crud_create_user(data)
    \/ \E id \in {1, 2}, data \in RollbackUserUpdates : crud_update_user(id, data)
    \/ \E data \in RollbackCategoryInputs : crud_create_category(data)

SpecRollback == InitRollback /\ [][NextRollback]_vars

StoreErrors ==
    {"ValueError: email already in use", "ValueError: login already in use",
     "ValueError: authorId does not exist",
     "KeyError: user not found", "KeyError: post not found"}
UniquenessErrors ==
    {"ValueError: Email already registered", "ValueError: Login already taken",
     "ValueError: Category name or slug already exists", "IntegrityError"}
tables == <<users, categories, posts, post_categories, comments, favorites,
            subscriptions>>

\* C24: an operation of the store that raises ValueError or KeyError leaves
\* users, posts and both counters as they were; a create_user, update_user or
\* create_category that fails on a unique column leaves every table as it was.
FailedOperationChangesNothing ==
    [][/\ last'.result \in StoreErrors => UNCHANGED store_vars
       /\ (/\ last'.op \in {"create_user", "update_user", "create_category"}
           /\ last'.result \in UniquenessErrors) => UNCHANGED tables
      ]_vars

\* Prototype: two users and a post, and a create_post for a missing author
\* was just refused.
StoreRollbackWitness ==
    /\ variant = "prototype"
    /\ last = [op |-> "Store.create_post", result |-> "ValueError: authorId does not exist"]
    /\ s_user_seq = 2 /\ DOMAIN s_users = {2}
    /\ DOMAIN s_posts # {}

\* ----- edited comments

EditPostInputs ==
    [author_id : {1}, title : {T_Hi}, content : {"c1"}, summary : {NULL},
     is_published : {Some(TRUE)}, category_ids : {NULL}]
EditPostUpdates ==
    [title : {NULL}, content : {NULL}, summary : {NULL},
     is_published : {Some(FALSE), Some(TRUE)}, category_ids : {NULL}]
EditCommentInputs == [content : {"c"}, parent_id : Opt({1})]
EditCommentUpdates == [content : {"c", "e", "f"}]

InitEdit ==
    /\ variant = "relational"
    /\ BaseState(TwoUsers, <<>>)

NextEdit ==
    \/ \E data \in EditPostInputs : crud_create_post(data)
    \/ \E data \in EditPostUpdates : crud_update_post(1, data)
    \/ \E u \in {1, 2}, data \in EditCommentInputs : route_create_comment(1, u, data)
    \/ \E c \in CommentIds, u \in {1, 2}, data \in EditCommentUpdates :
          route_update_comment(c, u, data)
    \/ \E c \in CommentIds, u \in {1, 2} : route_delete_comment(c, u)
    \/ crud_delete_post(1)

SpecEdit == InitEdit /\ [][NextEdit]_vars

\* C25: an update of a comment that goes through stores the new content,
\* sets is_edited and keeps post_id, user_id and parent_id; a stored comment
\* never loses is_edited; is_edited is false on a new comment and becomes
\* true by an update of that comment only.
EditedFlagIsPermanent ==
    [][/\ \A c \in CommentIds, u \in {1, 2}, data \in EditCommentUpdates :
             (/\ last'.op = "PUT /comments" /\ last'.result = "200"
              /\ route_update_comment(c, u, data)) =>
                /\ comments'[c].content = data.content
                /\ comments'[c].is_edited
                /\ comments'[c].post_id = comments[c].post_id
                /\ comments'[c].user_id = comments[c].user_id
                /\ comments'[c].parent_id = comments[c].parent_id
                /\ \A d \in DOMAIN comments \ {c} : comments'[d] = comments[d]
       /\ \A c \in DOMAIN comments' \ DOMAIN comments : ~comments'[c].is_edited
       /\ \A c \in DOMAIN comments' \cap DOMAIN comments :
             /\ comments[c].is_edited => comments'[c].is_edited
             /\ (~comments[c].is_edited /\ comments'[c].is_edited) =>
                   /\ last'.op = "PUT /comments" /\ last'.result = "200"
                   /\ \E u \in {1, 2}, data \in EditCommentUpdates :
                         route_update_comment(c, u, data)
      ]_vars

\* Comment 2, a reply to comment 1, was edited to the text it already had;
\* comment 1 was then deleted: the reply is edited and has lost its parent.
EditedWitness ==
    /\ DOMAIN comments = {2}
    /\ comments[2].is_edited
    /\ comments[2].content = "c"
    /\ comments[2].parent_id = NULL

\* C27: in the store of the prototype every post's authorId is the id of a
\* stored user, and every user and every post is stored under its own id.
StoreReferencesAreValid ==
    /\ \A p \in DOMAIN s_posts :
          /\ s_posts[p].authorId \in DOMAIN s_users
          /\ s_posts[p].id = p
    /\ \A u \in DOMAIN s_users : s_users[u].id = u

\* User 1 wrote post 1, the post was handed to user 2, and user 1 was then
\* deleted: the post is still stored, under user 2.
StoreReferencesWitness ==
    /\ last = [op |-> "Store.delete_user", result |-> "ok"]
    /\ DOMAIN s_users = {2}
    /\ 1 \in DOMAIN s_posts
    /\ s_posts[1].authorId = 2

\* ----- the prototype from startup to shutdown and again

\* the process serves requests from its startup to its shutdown
Running == last.op # "on_shutdown"

LifeUserInputs == [email : Emails, login : {"ann", "bob"}]
LifePostInputs == [authorId : {1, 2, 3}, title : {T_Hi}, content : {"c1"}]

InitLife ==
    /\ variant = "prototype"
    /\ EmptyState

NextLife ==
    \/ \E data \in LifeUserInputs : Running /\ Store_create_user(data)
    \/ \E id \in UserIds : Running /\ Store_delete_user(id)
    \/ \E data \in LifePostInputs : Running /\ Store_create_post(data)
    \/ \E id \in PostIds : Running /\ Store_delete_post(id)
    \/ Running /\ on_shutdown
    \/ ~Running /\ on_startup

SpecLife == InitLife /\ [][NextLife]_vars

MaxId(ids) == IF ids = {} THEN 0 ELSE CHOOSE i \in ids : \A j \in ids : j <= i

\* C28: neither counter of the store ever goes down, from one request to the
\* next and from a shutdown to the next startup; a create_user (create_post)
\* that succeeds stores its record under the counter's next value, which is
\* above the old counter; each counter is at least the largest stored id.
\* Every id handed out is thus above every id handed out before it.
StoreIdsNeverReused ==
    [][/\ s_user_seq' >= s_user_seq
       /\ s_post_seq' >= s_post_seq
       /\ last' = [op |-> "Store.create_user", result |-> "ok"] =>
             /\ DOMAIN s_users' \ DOMAIN s_users = {s_user_seq'}
             /\ s_user_seq' > s_user_seq
       /\ last' = [op |-> "Store.create_post", result |-> "ok"] =>
             /\ DOMAIN s_posts' \ DOMAIN s_posts = {s_post_seq'}
             /\ s_post_seq' > s_post_seq
       /\ s_user_seq' >= MaxId(DOMAIN s_users')
       /\ s_post_seq' >= MaxId(DOMAIN s_posts')
      ]_vars

\* Users 1 and 2 were created and deleted, the store was saved empty at a
\* shutdown and loaded at the next startup, and the next user got id 3.
StoreIdsWitness ==
    /\ last = [op |-> "Store.create_user", result |-> "ok"]
    /\ data_file # NULL
    /\ Get(data_file).users = <<>>
    /\ Get(data_file)._user_seq = 2
    /\ DOMAIN s_users = {3}

\* ----- the read endpoints and unpublished posts

\* is_published=True if not current_user or not current_user.is_admin else None
published_only(current_user) ==
    IF current_user = NULL \/ ~users[Get(current_user)].is_admin
    THEN Some(TRUE) ELSE NULL

\* GET /posts -> crud.get_posts, on the first page at the default size
route_list_posts(author_id, search, current_user) ==
    /\ variant = "relational"
    /\ current_user # NULL => Get(current_user) \in DOMAIN users
    /\ Returned("GET /posts",
                {p \in DOMAIN posts :
                    get_posts_filter(p, author_id, NULL,
                                     published_only(current_user), search)})
    /\ UNCHANGED <<variant, data_file, store_vars, db_vars, now, sess, listing>>

\* GET /search/posts -> crud.get_posts, on the first page at the default size
search_posts(q, current_user) ==
    /\ variant = "relational"
    /\ current_user # NULL => Get(current_user) \in DOMAIN users
    /\ q # <<>>
    /\ Returned("GET /search/posts",
                {p \in DOMAIN posts :
                    get_posts_filter(p, NULL, NULL,
                                     published_only(current_user), Some(q))})
    /\ UNCHANGED <<variant, data_file, store_vars, db_vars, now, sess, listing>>

\* crud.get_user_favorites: table posts joined with the user's rows of table
\* favorites; no condition on is_published
get_user_favorites(user_id) ==
    {p \in DOMAIN posts : is_favorited(user_id, p)}

\* GET /me/favorites, on the first page at the default size
get_my_favorites(current_user) ==
    /\ variant = "relational"
    /\ current_user \in DOMAIN users
    /\ Returned("GET /me/favorites", get_user_favorites(current_user))
    /\ UNCHANGED <<variant, data_file, store_vars, db_vars, now, sess, listing>>

\* user 1 reads, user 2 writes, user 3 is an admin
ReadUsers == <<UserRow("a@x.io", "ann"), UserRow("c@x.io", "cat"), AdminRow>>
ReadPostInputs ==
    [author_id : {2}, title : {T_Hi, T_yo}, content : {T_no}, summary : {NULL},
     is_published : {Some(TRUE), Some(FALSE)}, category_ids : {NULL}]
ReadPostUpdates ==
    [title : {NULL}, content : {NULL}, summary : {NULL},
     is_published : {Some(TRUE), Some(FALSE)}, category_ids : {NULL}]
Readers == {1, 2, 3}
ReadSearches == {<<"H">>, <<"y", "o">>}

InitReads ==
    /\ variant = "relational"
    /\ BaseState(ReadUsers, <<>>)

NextReads ==
    \/ \E data \in ReadPostInputs : crud_create_post(data)
    \/ \E p \in PostIds, data \in ReadPostUpdates : crud_update_post(p, data)
    \/ \E p \in PostIds : add_to_favorites(p, 1)
    \/ crud_follow_user(1, 2)
    \/ \E a \in Opt({2}), u \in Opt(Readers) : route_list_posts(a, NULL, u)
    \/ \E q \in ReadSearches, u \in Opt(Readers) : search_posts(q, u)
    \/ \E p \in PostIds, u \in Opt(Readers) : route_get_post(1, p, u)
    \/ increment_post_views(1)
    \/ \E u \in Readers : get_feed(1, DefaultPageSize, u)
    \/ \E u \in Readers : get_my_favorites(u)

SpecReads == InitReads /\ [][NextReads]_vars

\* post p may be shown to the caller: it is published, or the caller is its
\* author or an admin
MayRead(p, current_user) ==
    \/ posts[p].is_published
    \/ /\ current_user # NULL
       /\ \/ posts[p].author_id = Get(current_user)
          \/ users[Get(current_user)].is_admin

\* C29: every post a read endpoint returns is published, or the caller is its
\* author or an admin.
ReadsHideUnpublishedPosts ==
    [][/\ \A a \in Opt({2}), u \in Opt(Readers) :
             (last'.op = "GET /posts" /\ route_list_posts(a, NULL, u)) =>
                \A p \in last'.result : MayRead(p, u)
       /\ \A q \in ReadSearches, u \in Opt(Readers) :
             (last'.op = "GET /search/posts" /\ search_posts(q, u)) =>
                \A p \in last'.result : MayRead(p, u)
       /\ \A p \in PostIds, u \in Opt(Readers) :
             (route_get_post(1, p, u) /\ sess'[1].out = Some("200")) => MayRead(p, u)
       /\ \A u \in Readers :
             (last'.op = "GET /me/feed" /\ get_feed(1, DefaultPageSize, u)) =>
                \A p \in Range(last'.result.items) : MayRead(p, Some(u))
       /\ \A u \in Readers :
             (last'.op = "GET /me/favorites" /\ get_my_favorites(u)) =>
                \A p \in last'.result : MayRead(p, Some(u))
      ]_vars

\* ----- logins that look like emails

\* a login is any text of 3 to 50 characters (models.py:77-83, 146): it may
\* be the email of another user
NameUserInputs ==
    [email : Emails, login : {"ann", "a@x.io"}, password : {"pw-one-1", "pw-two-2"},
     full_name : {NULL}, is_active : BOOLEAN]
NameUsernames == Emails \cup {"ann", "zed"}

InitLoginNames ==
    /\ variant = "relational"
    /\ EmptyState

NextLoginNames ==
    \/ \E data \in NameUserInputs : crud_create_user(data)
    \/ \E username \in NameUsernames, password \in LoginPasswords :
          route_login(username, password)

SpecLoginNames == InitLoginNames /\ [][NextLoginNames]_vars

\* C30: an active stored user who logs in with their own login and their own
\* password is answered 200 with a token made for them.
OwnLoginGetsToken ==
    [][\A u \in UserIds, password \in LoginPasswords :
          (/\ last'.op = "login"
           /\ u \in DOMAIN users
           /\ users[u].is_active
           /\ verify_password(password, users[u].password_hash)
           /\ users[u].login \in NameUsernames
           /\ route_login(users[u].login, password)) =>
              last'.result =
                 LoginResponse(200, "", create_access_token(u, users[u].is_admin))
      ]_vars

====
